---- MODULE Spec2Model ----
(***************************************************************************)
(* A state-machine model of the aethernet autonomous runtime core          *)
(* (packages/core-runtime/src/runtime.ts and the state store it writes     *)
(* through): the self-modification engine with its rate limit, path gates  *)
(* and rollback, the turn orchestrator (run), the turn validator, the      *)
(* action executor, the wallet session, the messaging inbox and the daemon *)
(* scheduler.                                                              *)
(***************************************************************************)
EXTENDS Integers, Sequences, FiniteSets, TLC

VARIABLES
    config,             \* AgentConfig and injected dependencies: fixed
    usdEnv,             \* process.env.AETHERNET_ESTIMATED_USD_BALANCE
    schemaVersion,      \* MAX(version) of schema_version, 0 for an empty table
    startup,            \* initialize(): "pending", "started" or "refused"
    minJobPayment,      \* legacy AgentRuntime: config.minJobPayment, in wei
    minPayment,         \* legacy PaymentManager.minPayment, in wei
    balance,            \* legacy: the last payments.getBalance(), in wei
    survivalChecks,     \* history: number of survivalCheck() calls so far
    now,                \* Date.now(), in milliseconds
    emergency,          \* emergency_state.enabled
    latestTier,         \* tier of getLatestSurvivalSnapshot(), "none" when no row
    agentState,         \* kv agent_state
    account,            \* this.account is loaded
    unlockedUntil,      \* this.unlockedUntil, -1 for null
    sessions,           \* unlock_sessions rows
    transportQueue,     \* InMemoryMessagingTransport.queue
    lastPollAt,         \* kv xmtp_last_poll_at, -1 when unset
    messages,           \* messages rows: id -> row
    inboxOf,            \* history: id -> ticks whose inboxMessages held it
    processedLog,       \* history: id -> values written to processed_at
    conversations,      \* xmtp_conversations rows: the thread ids
    knownThreads,       \* InMemoryMessagingTransport.knownThreads: the ids
    files,              \* the file system below cwd/home: path -> content
    backups,            \* <dataDir>/rollbacks: backup file name -> content
    mutations,          \* self_mod_mutations rows, in insertion order
    rollbackPoints,     \* self_mod_rollbacks rows, in insertion order
    kvBackup,           \* kv self_mod_backup_v1:<mutationId>
    selfModTimestamps,  \* kv self_mod_timestamps_v1
    children,           \* children rows, in insertion order
    pendingReplicate,   \* replicate calls suspended at provider.createSandbox
    ticks,              \* run() calls in progress: caller -> local state
    tickCount,          \* history: number of run() calls so far
    turns,              \* turns rows
    telemetry,          \* turn_telemetry rows
    incidents,          \* runtime_incidents rows
    alerts,             \* alert_events rows
    alertMarkers,       \* kv alert:last:<severity>:<message>
    facts,              \* memory_facts: key -> value
    episodes,           \* memory_episodes rows
    kvStreak,           \* kv brain_failure_streak_v1
    kvNextSleep,        \* kv autonomy_next_sleep_ms, -1 when unset
    daemonRunning,      \* this.daemonRunning
    daemonPc,           \* position of the runDaemon loop
    consecutiveErrors,  \* runDaemon's local counter
    wakeAt,             \* the time the loop's sleep(nextSleep) ends
    brainLog,           \* history: the validations of the brain's outputs
    lastDaemon,         \* observation of the loop's last result handling
    lastSelfMod,        \* observation of the last selfModify call
    lastRollback,       \* observation of the last rollbackSelfMod call
    lastAttempt         \* observation of the last mutating operation attempted

legacyVars  == <<minJobPayment, minPayment, balance, survivalChecks>>
envVars     == <<config, usdEnv, schemaVersion, startup, legacyVars>>
ctlVars     == <<emergency, latestTier, agentState>>
walletVars  == <<account, unlockedUntil, sessions>>
msgVars     == <<transportQueue, lastPollAt, messages, inboxOf, processedLog,
                 conversations, knownThreads>>
selfModVars == <<files, backups, mutations, rollbackPoints, kvBackup,
                 selfModTimestamps, lastSelfMod, lastRollback>>
replVars    == <<children, pendingReplicate>>
tickVars    == <<ticks, tickCount>>
memVars     == <<facts, episodes>>
rowVars     == <<turns, telemetry, alerts, alertMarkers, kvStreak, kvNextSleep>>
daemonVars  == <<daemonRunning, daemonPc, consecutiveErrors, wakeAt, lastDaemon>>

vars == <<config, usdEnv, schemaVersion, startup, minJobPayment, minPayment,
          balance, survivalChecks, now, emergency, latestTier,
          agentState, account,
          unlockedUntil, sessions, transportQueue, lastPollAt, messages,
          inboxOf, processedLog, conversations, knownThreads, files, backups,
          mutations, rollbackPoints,
          kvBackup, selfModTimestamps, children, pendingReplicate, ticks,
          tickCount, turns, telemetry, incidents, alerts, alertMarkers, facts,
          episodes, kvStreak, kvNextSleep, daemonRunning, daemonPc,
          consecutiveErrors, wakeAt, brainLog, lastDaemon, lastSelfMod,
          lastRollback, lastAttempt>>

----------------------------------------------------------------------------
(* Program constants *)

SELF_MOD_WINDOW_MS == 3600000

SELF_MOD_LIMIT_PER_WINDOW == 6

ROLLBACK_LIST_LIMIT == 200

SCHEMA_VERSION == 2

\* syncMessagingInbox(since, limit = 50)
SYNC_POLL_LIMIT == 50

\* this.db.pollMessages(25)
INBOX_POLL_LIMIT == 25

\* this.db.listRuntimeIncidents(500)
ALERT_INCIDENT_LIMIT == 500

\* Date.now() - last < 60_000
ALERT_DEDUP_MS == 60000

(* Bounds of the model *)

\* Date.now() when the runtime is constructed
StartTime == 100000000

MaxClockSteps == 4

MaxSelfModCalls == 8

MaxPathMutations == 2

MaxRollbackMutations == 3

HalfWindow == SELF_MOD_WINDOW_MS \div 2

None == "none"

\* beforeHash of a file that did not exist (null)
NullHash == <<"null">>

\* the kv sentinel "__DELETE__", and the value of a key that is not set
DeleteSentinel == <<"__DELETE__">>

NoKey == <<"unset">>

NoSelfMod == [path |-> <<>>, content |-> "", outcome |-> "none",
              writesInWindow |-> 0, earlierGates |-> "ok",
              fileChanged |-> FALSE, rowAdded |-> FALSE, slotUsed |-> FALSE]

NoRollback == [path |-> <<>>, point |-> 0, outcome |-> "none"]

NoAttempt == [op |-> "none", via |-> "none", emergency |-> FALSE,
              tier |-> "none", wallet |-> "none", outcome |-> "none",
              afterLock |-> FALSE, effect |-> FALSE, code |-> "none",
              refusing |-> {}]

NoDaemon == [result |-> "none", errorsBefore |-> 0, errorsAfter |-> 0,
             runningBefore |-> FALSE, running |-> FALSE, state |-> "none",
             tick |-> 0]

\* The callers of run(): the daemon loop and the CLI / HTTP surface.
Callers == {"daemon", "api"}

----------------------------------------------------------------------------
(* Paths.  A path is the sequence of its segments below the root; the      *)
(* string of a normalized path is "/" followed by its segments joined by   *)
(* "/", so the root itself is <<>> with string "/".                        *)

\* path.resolve on the segments of an absolute path: "." is dropped and
\* ".." removes the segment before it (the root has no parent).
RECURSIVE Normalize(_, _)
Normalize(segs, acc) ==
    IF segs = <<>> THEN acc
    ELSE LET s == Head(segs) IN
         IF s = "." THEN Normalize(Tail(segs), acc)
         ELSE IF s = ".." THEN
              Normalize(Tail(segs),
                        IF acc = <<>> THEN acc ELSE SubSeq(acc, 1, Len(acc) - 1))
         ELSE Normalize(Tail(segs), Append(acc, s))

\* path.resolve(raw): a relative path is taken below process.cwd().
Resolve(raw) ==
    Normalize(IF raw.abs THEN raw.segs ELSE config.cwd \o raw.segs, <<>>)

IsPrefix(r, p) == Len(r) <= Len(p) /\ SubSeq(p, 1, Len(r)) = r

\* normalized === root || normalized.startsWith(`${root}${path.sep}`).
\* For the root directory the prefix string is "//", which no normalized
\* path starts with.
EqualOrBelow(normalized, root) ==
    \/ normalized = root
    \/ root # <<>> /\ IsPrefix(root, normalized) /\ Len(normalized) > Len(root)

\* The protected paths themselves only, without the files below them.
IsProtectedPathEqualOnly(raw) ==
    \E pp \in config.protectedPaths : Resolve(raw) = Normalize(pp, <<>>)

\* isProtectedPath
IsProtectedPath(raw) ==
    \E pp \in config.protectedPaths :
        EqualOrBelow(Resolve(raw), Normalize(pp, <<>>))

IsSelfModPathAllowed(resolved) ==
    \/ EqualOrBelow(resolved, Normalize(config.cwd, <<>>))
    \/ EqualOrBelow(resolved, Normalize(config.homeDir, <<>>))

\* crypto sha256 of a file's content: collision-free on the model's contents.
Sha256(content) == <<"sha256", content>>

FileExists(p) == p \in DOMAIN files

HashFileSafe(p) == Sha256(files[p])

\* path.basename(targetPath).replace(/[^a-zA-Z0-9._-]/g, "_")
Sanitize(name) == IF name = "x y" THEN "x_y" ELSE name

Basename(p) == IF p = <<>> THEN "" ELSE p[Len(p)]

\* <dataDir>/rollbacks/<basename-sanitized>.<epoch-ms>.bak
BackupName(p, t) == <<Sanitize(Basename(p)), t>>

----------------------------------------------------------------------------
(* The state store's rows and the gates shared by the mutating operations *)

\* insertRuntimeIncident: the row, with the parts of its message that vary.
Incident(code, severity, category, s, n1, n2) ==
    [code |-> code, severity |-> severity, category |-> category,
     s |-> s, n1 |-> n1, n2 |-> n2, at |-> now]

\* The gate reading the survival tier only.
AssertMutableIgnoringEmergency ==
    IF latestTier = "dead" THEN "dead" ELSE "ok"

\* The gate reading the emergency state only.
AssertMutableIgnoringTier ==
    IF emergency THEN "emergency" ELSE "ok"

\* assertMutableOperationAllowed: "ok", or the gate that throws.
AssertMutableOperationAllowed ==
    IF emergency THEN "emergency"
    ELSE IF latestTier = "dead" THEN "dead"
    ELSE "ok"

\* isWalletUnlocked
IsWalletUnlocked ==
    account /\ unlockedUntil > 0 /\ now < unlockedUntil

\* The wallet as a mutating attempt finds it.
WalletState ==
    IF ~account THEN "locked"
    ELSE IF IsWalletUnlocked THEN "unlocked" ELSE "expired"

\* lockWallet has run since the last unlockWallet.
LockedByLock ==
    /\ ~account
    /\ Len(sessions) > 0
    /\ \A i \in DOMAIN sessions : sessions[i].revoked

\* The observation of a mutating attempt: the state it met, the gate that
\* refused it or "ok", the code of its incident, whether it changed anything.
Attempt(op, via, outcome, code, effect) ==
    [op |-> op, via |-> via, emergency |-> emergency, tier |-> latestTier,
     wallet |-> WalletState, afterLock |-> LockedByLock, outcome |-> outcome,
     effect |-> effect, code |-> code, refusing |-> {}]

\* unlockWallet(passphrase, ttlSec) with the right passphrase; a wrong one
\* throws in decryptWalletAccount before any change.
UnlockWallet(ttlSec, cap) ==
    /\ Len(sessions) < cap
    /\ account' = TRUE
    /\ unlockedUntil' = now + ttlSec * 1000
    /\ sessions' = Append(sessions,
            [createdAt |-> now, expiresAt |-> now + ttlSec * 1000,
             revoked |-> FALSE])
    /\ UNCHANGED <<envVars, brainLog, now, ctlVars, msgVars, selfModVars, replVars,
                   tickVars, memVars, rowVars, incidents, daemonVars,
                   lastAttempt>>

\* lockWallet
LockWallet ==
    /\ account' = FALSE
    /\ unlockedUntil' = -1
    /\ sessions' = [i \in DOMAIN sessions |->
                        [sessions[i] EXCEPT !.revoked = TRUE]]
    /\ UNCHANGED <<envVars, brainLog, now, ctlVars, msgVars, selfModVars, replVars,
                   tickVars, memVars, rowVars, incidents, daemonVars,
                   lastAttempt>>

\* rotateWallet(old, new) with the right passphrase: the keystore is
\* re-encrypted and lockWallet runs; a wrong one throws before any change.
RotateWallet ==
    /\ account' = FALSE
    /\ unlockedUntil' = -1
    /\ sessions' = [i \in DOMAIN sessions |->
                        [sessions[i] EXCEPT !.revoked = TRUE]]
    /\ UNCHANGED <<envVars, brainLog, now, ctlVars, msgVars, selfModVars, replVars,
                   tickVars, memVars, rowVars, incidents, daemonVars,
                   lastAttempt>>

\* getAccount() on a wallet whose session has expired or that has no signer:
\* lockWallet runs and the call throws.
GetAccountLocked ==
    /\ ~account \/ (unlockedUntil # -1 /\ now >= unlockedUntil)
    /\ account' = FALSE
    /\ unlockedUntil' = -1
    /\ sessions' = [i \in DOMAIN sessions |->
                        [sessions[i] EXCEPT !.revoked = TRUE]]
    /\ UNCHANGED <<envVars, brainLog, now, ctlVars, msgVars, selfModVars, replVars,
                   tickVars, memVars, rowVars, incidents, daemonVars,
                   lastAttempt>>

----------------------------------------------------------------------------
(* Self-modification engine *)

\* getSelfModTimestamps().filter((value) => value >= windowStart)
InWindow(stamps, t) ==
    SelectSeq(stamps, LAMBDA v : v >= t - SELF_MOD_WINDOW_MS)

\* The limit taken as inclusive: a write is let through at 6 recent writes.
CanPerformSelfModInclusive ==
    Len(InWindow(selfModTimestamps, now)) <= SELF_MOD_LIMIT_PER_WINDOW

\* canPerformSelfMod
CanPerformSelfMod ==
    Len(InWindow(selfModTimestamps, now)) < SELF_MOD_LIMIT_PER_WINDOW

\* recordSelfModAttempt
RecordSelfModAttempt == Append(InWindow(selfModTimestamps, now), now)

\* readFileSync / writeFileSync of a directory throws (EISDIR), and
\* mkdirSync of a parent that is a file throws (ENOTDIR, EEXIST).
IsDirectory(p) ==
    \/ p = <<>>
    \/ IsPrefix(p, Normalize(config.cwd, <<>>))
    \/ IsPrefix(p, Normalize(config.homeDir, <<>>))
    \/ \E f \in DOMAIN files : IsPrefix(p, f) /\ f # p

BelowFile(p) == \E f \in DOMAIN files : IsPrefix(f, p) /\ f # p

\* The first gate of selfModify that throws, or "ok".
SelfModGate(raw) ==
    IF AssertMutableOperationAllowed # "ok" THEN AssertMutableOperationAllowed
    ELSE IF ~config.aggressiveSelfMod THEN "disabled"
    ELSE IF ~CanPerformSelfMod THEN "rate_limited"
    ELSE IF IsProtectedPath(raw) THEN "protected"
    ELSE IF ~IsSelfModPathAllowed(Resolve(raw)) THEN "out_of_scope"
    ELSE IF IsDirectory(Resolve(raw)) \/ BelowFile(Resolve(raw)) THEN "io_error"
    ELSE "ok"

\* Successful writes (mutation rows) whose time lies within the hour before t.
WritesWithin(t) ==
    Cardinality({i \in DOMAIN mutations :
                    mutations[i].createdAt >= t - SELF_MOD_WINDOW_MS})

\* The statements selfModify runs on the store after it has written the
\* file, in their order.  None is inside a transaction or a try block.
StoreSteps ==
    <<"record_attempt", "insert_mutation", "insert_rollback", "set_backup_kv">>

\* No statement of the call throws.
NoStoreFailure == "none"

\* The statement `step` has run when the statement `failAt` throws.
StepDone(step, failAt) ==
    \/ failAt = NoStoreFailure
    \/ \E i, j \in DOMAIN StoreSteps :
          StoreSteps[i] = step /\ StoreSteps[j] = failAt /\ i < j

\* selfModify(targetPath, content), the whole synchronous handler, as it acts
\* on the files and the self-modification tables, when the store statement
\* `failAt` throws (SQLITE_BUSY, SQLITE_FULL, ...) or none does.
SelfModifySteps(raw, content, failAt) ==
    LET gate     == SelfModGate(raw)
        resolved == Resolve(raw)
        existed  == FileExists(resolved)
        before   == IF existed THEN HashFileSafe(resolved) ELSE NullHash
        after    == Sha256(content)
        mid      == Len(mutations) + 1
        bname    == BackupName(resolved, now)
    IN
    /\ IF gate = "ok"
       THEN /\ backups' = IF existed
                            THEN [b \in DOMAIN backups \cup {bname} |->
                                    IF b = bname THEN files[resolved] ELSE backups[b]]
                            ELSE backups
            /\ files' = [p \in DOMAIN files \cup {resolved} |->
                            IF p = resolved THEN content ELSE files[p]]
            /\ selfModTimestamps' =
                  IF StepDone("record_attempt", failAt)
                    THEN RecordSelfModAttempt ELSE selfModTimestamps
            /\ mutations' =
                  IF StepDone("insert_mutation", failAt)
                    THEN Append(mutations,
                           [id |-> mid, path |-> resolved,
                            beforeHash |-> before, afterHash |-> after,
                            createdAt |-> now])
                    ELSE mutations
            /\ rollbackPoints' =
                  IF StepDone("insert_rollback", failAt)
                    THEN Append(rollbackPoints,
                           [mutationId |-> mid, path |-> resolved,
                            rollbackHash |-> IF before = NullHash THEN after
                                             ELSE before,
                            createdAt |-> now])
                    ELSE rollbackPoints
            /\ kvBackup' =
                  IF StepDone("set_backup_kv", failAt)
                    THEN [m \in DOMAIN kvBackup \cup {mid} |->
                            IF m = mid
                              THEN (IF existed THEN bname ELSE DeleteSentinel)
                              ELSE kvBackup[m]]
                    ELSE kvBackup
       ELSE UNCHANGED <<files, backups, mutations, rollbackPoints, kvBackup,
                        selfModTimestamps>>
    /\ lastRollback' = NoRollback
    /\ lastSelfMod' =
          [path |-> resolved, content |-> content,
           outcome |-> IF gate = "ok" /\ failAt # NoStoreFailure
                         THEN "storage" ELSE gate,
           writesInWindow |-> WritesWithin(now),
           earlierGates |-> IF AssertMutableOperationAllowed # "ok"
                              THEN AssertMutableOperationAllowed
                            ELSE IF ~config.aggressiveSelfMod THEN "disabled"
                            ELSE "ok",
           fileChanged |-> files' # files,
           rowAdded |-> mutations' # mutations \/ rollbackPoints' # rollbackPoints,
           slotUsed |-> selfModTimestamps' # selfModTimestamps]

\* selfModify on a store none of whose statements throws.
SelfModifyEffect(raw, content) == SelfModifySteps(raw, content, NoStoreFailure)

\* selfModify called through the runtime API (CLI, HTTP surface).
SelfModify(raw, content) ==
    /\ SelfModifyEffect(raw, content)
    /\ UNCHANGED <<envVars, brainLog, now, ctlVars, walletVars, msgVars, replVars,
                   tickVars, memVars, rowVars, incidents, daemonVars>>
    /\ lastAttempt' = Attempt("self_modify", "api", SelfModGate(raw), "none",
                              <<files, backups, mutations, rollbackPoints,
                                kvBackup, selfModTimestamps>>'
                              # <<files, backups, mutations, rollbackPoints,
                                  kvBackup, selfModTimestamps>>)

\* selfModify called through the runtime API while the store statement
\* `failAt` throws: the error reaches the caller.
SelfModifyInterrupted(raw, content, failAt) ==
    /\ SelfModifySteps(raw, content, failAt)
    /\ UNCHANGED <<envVars, brainLog, now, ctlVars, walletVars, msgVars, replVars,
                   tickVars, memVars, rowVars, incidents, daemonVars>>
    /\ lastAttempt' = Attempt("self_modify", "api",
                              IF SelfModGate(raw) = "ok" THEN "storage"
                              ELSE SelfModGate(raw),
                              "none",
                              <<files, backups, mutations, rollbackPoints,
                                kvBackup, selfModTimestamps>>'
                              # <<files, backups, mutations, rollbackPoints,
                                  kvBackup, selfModTimestamps>>)

\* listRollbackPoints(200): ORDER BY created_at DESC LIMIT 200.  Rows with
\* equal created_at come in an order the query does not fix.
ListedRollbackPoints ==
    {i \in DOMAIN rollbackPoints :
        Cardinality({j \in DOMAIN rollbackPoints :
            rollbackPoints[j].createdAt > rollbackPoints[i].createdAt})
          < ROLLBACK_LIST_LIMIT}

\* .find((point) => point.path === path.resolve(pathValue)): the first listed
\* row of that path, any one of those with the greatest created_at.
FoundRollbackPoints(resolved) ==
    {i \in ListedRollbackPoints :
        /\ rollbackPoints[i].path = resolved
        /\ \A j \in ListedRollbackPoints :
              rollbackPoints[j].path = resolved =>
                  rollbackPoints[j].createdAt <= rollbackPoints[i].createdAt}

\* rollbackSelfMod(pathValue), the whole synchronous handler.
RollbackSelfMod(raw) ==
    LET resolved == Resolve(raw)
        found    == FoundRollbackPoints(resolved)
    IN
    /\ UNCHANGED <<envVars, brainLog, now, ctlVars, walletVars, msgVars, backups,
                   mutations, rollbackPoints, kvBackup, selfModTimestamps,
                   lastSelfMod, replVars, tickVars, memVars, rowVars,
                   incidents, daemonVars, lastAttempt>>
    /\ IF AssertMutableOperationAllowed # "ok"
       THEN /\ lastRollback' = [path |-> resolved, point |-> 0,
                                outcome |-> AssertMutableOperationAllowed]
            /\ UNCHANGED files
       ELSE IF found = {}
       THEN /\ lastRollback' = [path |-> resolved, point |-> 0,
                                outcome |-> "no_rollback_point"]
            /\ UNCHANGED files
       ELSE \E i \in found :
            LET mid == rollbackPoints[i].mutationId
                bak == IF mid \in DOMAIN kvBackup THEN kvBackup[mid] ELSE NoKey
            IN
            IF bak = DeleteSentinel
            THEN /\ files' = [p \in DOMAIN files \ {resolved} |-> files[p]]
                 /\ lastRollback' = [path |-> resolved, point |-> i,
                                     outcome |-> "ok"]
            ELSE IF bak # NoKey /\ bak \in DOMAIN backups
            THEN /\ files' = [p \in DOMAIN files \cup {resolved} |->
                                 IF p = resolved THEN backups[bak] ELSE files[p]]
                 /\ lastRollback' = [path |-> resolved, point |-> i,
                                     outcome |-> "ok"]
            ELSE /\ lastRollback' = [path |-> resolved, point |-> i,
                                     outcome |-> "data_missing"]
                 /\ UNCHANGED files

----------------------------------------------------------------------------
(* Messaging: the transport, the messages table and sendMessage *)

\* The id the transport gives its next message (ids are never reused).
NextMessageId == Len(transportQueue) + 1

\* A row of the messages table.
MessageRow(receivedAt, own) ==
    [receivedAt |-> receivedAt, processedAt |-> -1, own |-> own]

\* transport.poll({since, limit}): the first `limit` queued messages whose
\* receivedAt is not before `since` (0 when there is none).
TransportPoll(since, limit) ==
    LET hits == SelectSeq(transportQueue,
                          LAMBDA m : m.receivedAt >= (IF since < 0 THEN 0 ELSE since))
    IN SubSeq(hits, 1, IF Len(hits) < limit THEN Len(hits) ELSE limit)

\* The first gate of sendMessage that throws, or "ok".
SendMessageGate ==
    IF AssertMutableOperationAllowed # "ok" THEN AssertMutableOperationAllowed
    ELSE IF ~config.hasMessaging THEN "no_transport"
    ELSE "ok"

\* String.prototype.toLowerCase on the addresses of the model.
ToLowerCase(s) == IF s = "Peer" THEN "peer" ELSE s

\* The thread of a message to or from the address, when none is given.
DmThread(address) == <<"dm", address>>

\* An absent threadId.
NoThread == <<>>

\* The thread lineage:<childId> of the k-th child.
LineageThread(k) == <<"lineage", k>>

\* messaging.send followed by insertMessage of the outbound copy, which is
\* stored like an inbound row: processed_at NULL.  The transport files the
\* message under the thread of the lower-cased address, the store under the
\* thread of the address as given.
SendMessageEffect(to, threadId) ==
    LET id == NextMessageId IN
    /\ knownThreads' = knownThreads \cup
          {IF threadId = NoThread THEN DmThread(ToLowerCase(to)) ELSE threadId}
    /\ conversations' = conversations \cup
          {IF threadId = NoThread THEN DmThread(to) ELSE threadId}
    /\ transportQueue' = Append(transportQueue,
            [id |-> id, receivedAt |-> now, own |-> TRUE])
    /\ messages' = [m \in DOMAIN messages \cup {id} |->
                        IF m = id THEN MessageRow(now, TRUE) ELSE messages[m]]
    /\ inboxOf' = [m \in DOMAIN inboxOf \cup {id} |->
                        IF m = id THEN {} ELSE inboxOf[m]]
    /\ processedLog' = [m \in DOMAIN processedLog \cup {id} |->
                        IF m = id THEN <<>> ELSE processedLog[m]]
    /\ UNCHANGED lastPollAt

\* sendMessage called through the runtime API.
SendMessage(cap) ==
    /\ Len(transportQueue) < cap
    /\ IF SendMessageGate = "ok" THEN SendMessageEffect("peer", NoThread)
       ELSE UNCHANGED msgVars
    /\ UNCHANGED <<envVars, brainLog, now, ctlVars, walletVars, selfModVars, replVars,
                   tickVars, memVars, rowVars, incidents, daemonVars>>
    /\ lastAttempt' = Attempt("send_message", "api", SendMessageGate, "none",
                              <<transportQueue, messages>>'
                                # <<transportQueue, messages>>)

\* A peer's message reaches the transport.
Deliver(cap) ==
    /\ Len(transportQueue) < cap
    /\ transportQueue' = Append(transportQueue,
            [id |-> NextMessageId, receivedAt |-> now, own |-> FALSE])
    /\ UNCHANGED <<lastPollAt, messages, inboxOf, processedLog, conversations,
                   knownThreads>>
    /\ UNCHANGED <<envVars, brainLog, now, ctlVars, walletVars, selfModVars, replVars,
                   tickVars, memVars, rowVars, incidents, daemonVars,
                   lastAttempt>>

----------------------------------------------------------------------------
(* Replication.  replicate() suspends at provider.createSandbox; the part   *)
(* before the suspension and the part after it are separate steps.         *)

NoReplicate == [active |-> FALSE, funding |-> 0]

\* countChildren("running")
CountRunningChildren ==
    Cardinality({i \in DOMAIN children : children[i].status = "running"})

\* The first gate of replicate that throws before the sandbox is requested.
ReplicateGate ==
    IF AssertMutableOperationAllowed # "ok" THEN AssertMutableOperationAllowed
    ELSE IF ~config.hasProvider THEN "no_provider"
    ELSE IF CountRunningChildren >= config.maxChildren THEN "max_children"
    ELSE "ok"

\* What the part of replicate after the suspension ends with.
ReplicateResult(p, providerOk) ==
    IF ~providerOk THEN "provider_error"
    ELSE IF p.funding > 0 /\ ~config.chain.payments THEN "funding_unsupported"
    ELSE "ok"

\* The lineage_init message of a spawned child: sent, refused by sendMessage
\* (caught, an incident is written), or not tried without a transport.
LineageOutcome(p, providerOk) ==
    IF ReplicateResult(p, providerOk) # "ok" \/ ~config.hasMessaging THEN "none"
    ELSE IF AssertMutableOperationAllowed # "ok" THEN "refused"
    ELSE "sent"

LineageIncidents(p, providerOk) ==
    IF LineageOutcome(p, providerOk) = "refused"
    THEN <<Incident("ACTION_FAILED", "warning", "replication",
                    AssertMutableOperationAllowed, 0, 0)>>
    ELSE <<>>

\* The part of replicate after createSandbox has returned or thrown, as it
\* acts on the children table and on the messages.
ReplicateFinishEffect(key, providerOk) ==
    LET p == pendingReplicate[key] IN
    /\ children' = IF providerOk
                     THEN Append(children, [status |-> "running", at |-> now])
                     ELSE children
    /\ pendingReplicate' = [pendingReplicate EXCEPT ![key] = NoReplicate]
    /\ IF LineageOutcome(p, providerOk) = "sent"
         THEN SendMessageEffect("child", LineageThread(Len(children')))
         ELSE /\ conversations' =
                   IF ReplicateResult(p, providerOk) = "ok"
                     THEN conversations \cup {LineageThread(Len(children'))}
                     ELSE conversations
              /\ UNCHANGED <<transportQueue, lastPollAt, messages, inboxOf,
                             processedLog, knownThreads>>

\* replicate called through the runtime API, up to the suspension.
Replicate(funding) ==
    /\ ~pendingReplicate["direct"].active
    /\ pendingReplicate' =
          IF ReplicateGate = "ok"
            THEN [pendingReplicate EXCEPT
                    !["direct"] = [active |-> TRUE, funding |-> funding]]
            ELSE pendingReplicate
    /\ UNCHANGED <<envVars, brainLog, now, ctlVars, walletVars, msgVars, selfModVars,
                   children, tickVars, memVars, rowVars, incidents, daemonVars>>
    /\ lastAttempt' = Attempt("replicate", "api", ReplicateGate, "none",
                              pendingReplicate' # pendingReplicate)

\* ... and after it.
ReplicateDone(providerOk) ==
    /\ pendingReplicate["direct"].active
    /\ ReplicateFinishEffect("direct", providerOk)
    /\ incidents' = incidents \o
            LineageIncidents(pendingReplicate["direct"], providerOk)
    /\ UNCHANGED <<envVars, brainLog, now, ctlVars, walletVars, selfModVars, tickVars,
                   memVars, rowVars, daemonVars, lastAttempt>>

----------------------------------------------------------------------------
(* Brain actions, the turn validator and the action executor's gates *)

NoPath == [abs |-> FALSE, segs |-> <<>>]

\* A BrainAction.  reason "" stands for an absent reason; a and b are the
\* string params of the type (to/content, key/value, summary,
\* sourceId/toolName), n its number (initialFundingUsdc, sleepMs) and raw its
\* targetPath.  chain is its params.chain, "" when the action names none.
Action(type, reason, a, b, n, raw) ==
    [type |-> type, reason |-> reason, a |-> a, b |-> b, n |-> n, raw |-> raw,
     chain |-> ""]

\* The action with params.chain set.
OnChain(action, chain) == [action EXCEPT !.chain = chain]

Noop(reason) == Action("noop", reason, "", "", 0, NoPath)

ALLOWED_AUTONOMY_ACTIONS ==
    {"send_message", "replicate", "self_modify", "record_fact",
     "record_episode", "invoke_tool", "sleep", "noop"}

\* String.prototype.trim on the summaries of the model.
Trim(s) ==
    IF s = " " THEN ""
    ELSE IF s = " go " THEN "go"
    ELSE s

Min(x, y) == IF x < y THEN x ELSE y

Max(x, y) == IF x > y THEN x ELSE y

\* The actions without any truncation.
UntruncatedActions(actions, maxActions) == actions

\* actions.slice(0, Math.max(1, limits.maxActions))
TruncatedActions(actions, maxActions) ==
    SubSeq(actions, 1, Min(Len(actions), Max(1, maxActions)))

\* validateBrainTurnOutput(output, limits, options)
ValidateBrainTurnOutput(output, maxActions, maxSleepMs, strictAllowlist) ==
    LET actions     == IF output.isArray THEN output.nextActions ELSE <<>>
        nextActions == TruncatedActions(actions, maxActions)
        allowed(x)  == x.type \in ALLOWED_AUTONOMY_ACTIONS
        filtered    == SelectSeq(nextActions, allowed)
        dropped     == SelectSeq(nextActions, LAMBDA x : ~allowed(x))
        errors      ==
            [i \in 1..Len(dropped) |-> <<"action_not_allowed", dropped[i].type>>]
            \o (IF Trim(output.summary) = "" THEN << <<"missing_summary">> >> ELSE <<>>)
            \o (IF ~output.isArray THEN << <<"missing_actions">> >> ELSE <<>>)
            \o (IF output.integrity = "malformed"
                  THEN << <<"provider_marked_malformed">> >> ELSE <<>>)
        structural(e) == e = <<"missing_summary">> \/ e = <<"missing_actions">>
        malformed   == IF strictAllowlist
                         THEN Len(errors) > 0
                         ELSE \E i \in 1..Len(errors) : structural(errors[i])
    IN
    [malformed |-> malformed,
     errors    |-> errors,
     output    |->
        [summary     |-> IF Trim(output.summary) = ""
                           THEN "Autonomous turn completed."
                           ELSE Trim(output.summary),
         isArray     |-> TRUE,
         nextActions |-> IF Len(filtered) > 0 THEN filtered
                         ELSE <<Noop("no_actions")>>,
         facts       |-> output.facts,
         episodes    |-> output.episodes,
         hasSleep    |-> output.hasSleep,
         sleepMs     |-> IF output.hasSleep
                           THEN Max(0, Min(output.sleepMs, maxSleepMs))
                           ELSE 0,
         integrity   |-> IF malformed THEN "malformed" ELSE "ok"]]

\* assertActionAllowlisted
AssertActionAllowlisted(type) ==
    IF config.strictActionAllowlist /\ type \notin ALLOWED_AUTONOMY_ACTIONS
      THEN "allowlist" ELSE "ok"

\* resolveActionChain({}, actionType): the configured default chain.
ResolveActionChain ==
    IF config.chain.known THEN "ok" ELSE "chain_unsupported"

\* assertActionChainCapability({}, capability, actionType)
AssertActionChainCapability(capability) ==
    IF ResolveActionChain # "ok" THEN ResolveActionChain
    ELSE IF ~config.chain[capability] THEN "chain_capability"
    ELSE "ok"

\* The tools of the internal adapter.
InternalTools ==
    {"agent.status", "memory.facts", "memory.episodes", "messages.threads",
     "survival.latest", "queue.depth"}

\* A ToolSourceConfig: adapter is metadata.adapter, "" when absent.
ToolSource(type, enabled, adapter, hasBaseUrl) ==
    [type |-> type, enabled |-> enabled, adapter |-> adapter,
     hasBaseUrl |-> hasBaseUrl]

\* buildToolSources(configured): the internal source, then the configured
\* ones, a later entry replacing an earlier one of the same id.
BuildToolSources(configured) ==
    [id \in {"internal.runtime"} \cup DOMAIN configured |->
        IF id \in DOMAIN configured THEN configured[id]
        ELSE ToolSource("internal", TRUE, "internal", FALSE)]

\* this.sources of the runtime's registry.
RegistrySources == BuildToolSources(config.toolSources)

\* this.adapters of the runtime's registry: the two the constructor gives.
RegistryAdapters == {"internal", "readonly_api"}

\* A ToolInvocationResult, with the adapter that was called to produce it.
ToolResult(ok, error, adapter) ==
    [ok |-> ok, error |-> error, adapter |-> adapter]

\* resolveAdapter(source): the adapter's name, "none" for undefined.
ResolveAdapter(source) ==
    LET name == IF source.adapter # "" THEN source.adapter
                ELSE IF source.type = "internal" THEN "internal"
                ELSE IF source.type = "api" THEN "readonly_api"
                ELSE source.type
    IN IF name \in RegistryAdapters THEN name ELSE "none"

\* The policy check with the policy taken as permissive.
ExternalNeverBlocked(source) == FALSE

\* source.type !== "internal" && !this.allowExternalSources
ExternalBlocked(source) ==
    source.type # "internal" /\ ~config.tooling.allowExternalSources

\* InternalToolAdapter.invoke and ReadOnlyApiToolAdapter.invoke (a GET
\* request with no auth token, answered as the endpoint is set to answer).
AdapterInvoke(adapter, source, toolName) ==
    IF adapter = "internal"
      THEN (IF toolName \in InternalTools
              THEN ToolResult(TRUE, "", adapter)
              ELSE ToolResult(FALSE, "unknown_internal_tool", adapter))
      ELSE (IF ~source.hasBaseUrl
              THEN ToolResult(FALSE, "missing_base_url", adapter)
            ELSE IF config.tooling.endpointOk
              THEN ToolResult(TRUE, "", adapter)
              ELSE ToolResult(FALSE, "external_call_failed", adapter))

\* ToolSourceRegistry.invoke(request)
RegistryInvoke(sourceId, toolName) ==
    IF sourceId \notin DOMAIN RegistrySources
      THEN ToolResult(FALSE, "unknown_source", "none")
    ELSE LET source == RegistrySources[sourceId] IN
      IF ~source.enabled THEN ToolResult(FALSE, "source_disabled", "none")
      ELSE IF ExternalBlocked(source)
        THEN ToolResult(FALSE, "external_blocked", "none")
      ELSE IF ResolveAdapter(source) = "none"
        THEN ToolResult(FALSE, "no_adapter", "none")
      ELSE AdapterInvoke(ResolveAdapter(source), source, toolName)

\* The invoke_tool action: this.invokeTool, a failed result made an error.
InvokeTool(sourceId, toolName) ==
    IF RegistryInvoke(sourceId, toolName).ok THEN "ok" ELSE "tool_failed"

\* listMessageThreads(limit): every thread the transport lists is upserted
\* into xmtp_conversations.
ListMessageThreadsEffect ==
    /\ conversations' = IF config.hasMessaging
                          THEN conversations \cup knownThreads
                          ELSE conversations
    /\ UNCHANGED <<transportQueue, lastPollAt, messages, inboxOf,
                   processedLog, knownThreads>>

\* What the handler of an invoked tool does to the store.
InvokeToolEffect(sourceId, toolName) ==
    IF /\ RegistryInvoke(sourceId, toolName).ok
       /\ RegistryInvoke(sourceId, toolName).adapter = "internal"
       /\ toolName = "messages.threads"
      THEN ListMessageThreadsEffect
      ELSE UNCHANGED msgVars

\* The wallet-session gate of send_message and replicate, followed by the
\* gates of the operation itself.
WalletGate(inner) ==
    IF ~IsWalletUnlocked THEN "wallet_locked" ELSE inner

\* executeBrainAction(action): the first check that throws, or "ok".
ExecuteGate(action) ==
    IF AssertActionAllowlisted(action.type) # "ok" THEN "allowlist"
    ELSE IF action.type = "send_message" THEN
        IF AssertActionChainCapability("messaging") # "ok"
          THEN AssertActionChainCapability("messaging")
        ELSE WalletGate(IF action.a = "" \/ action.b = "" THEN "bad_params"
                        ELSE SendMessageGate)
    ELSE IF action.type = "replicate" THEN
        IF action.n > 0 /\ AssertActionChainCapability("payments") # "ok"
          THEN AssertActionChainCapability("payments")
        ELSE IF action.n <= 0 /\ ResolveActionChain # "ok"
          THEN ResolveActionChain
        ELSE WalletGate(ReplicateGate)
    ELSE IF action.type = "self_modify" THEN
        IF ~config.allowSelfModifyAction THEN "selfmod_policy"
        ELSE IF action.raw = NoPath \/ action.b = "" THEN "bad_params"
        ELSE SelfModGate(action.raw)
    ELSE IF action.type = "record_fact" THEN
        IF action.a = "" \/ action.b = "" THEN "bad_params" ELSE "ok"
    ELSE IF action.type = "record_episode" THEN
        IF action.a = "" THEN "bad_params" ELSE "ok"
    ELSE IF action.type = "invoke_tool" THEN
        IF action.a = "" \/ action.b = "" THEN "bad_params"
        ELSE InvokeTool(action.a, action.b)
    ELSE IF action.type \in {"sleep", "noop"} THEN "ok"
    ELSE "unsupported_type"

\* The checks of executeBrainAction and of the operation behind it that
\* would throw for the action in the present state, each taken alone.
RefusingGates(action) ==
    {g \in {"allowlist", "emergency_survival", "wallet", "chain",
            "selfmod_policy"} :
        \/ g = "allowlist" /\ AssertActionAllowlisted(action.type) # "ok"
        \/ /\ g = "emergency_survival"
           /\ action.type \in {"send_message", "replicate", "self_modify"}
           /\ AssertMutableOperationAllowed # "ok"
        \/ /\ g = "wallet"
           /\ action.type \in {"send_message", "replicate"}
           /\ ~IsWalletUnlocked
        \/ /\ g = "chain"
           /\ \/ /\ action.type = "send_message"
                 /\ AssertActionChainCapability("messaging") # "ok"
              \/ /\ action.type = "replicate"
                 /\ action.n > 0
                 /\ AssertActionChainCapability("payments") # "ok"
              \/ /\ action.type = "replicate"
                 /\ action.n <= 0
                 /\ ResolveActionChain # "ok"
        \/ /\ g = "selfmod_policy"
           /\ action.type = "self_modify"
           /\ ~config.allowSelfModifyAction}

\* Whether the action reached selfModify / sendMessage / replicate itself.
ReachesOperation(action) ==
    ExecuteGate(action) \in
        {"ok", "emergency", "dead", "no_transport", "no_provider",
         "max_children", "disabled", "rate_limited", "protected",
         "out_of_scope", "io_error"}

\* actionFailureCode(actionType, message), on the messages of the gates.
ActionFailureCode(type, gate) ==
    IF gate = "wallet_locked" THEN "WALLET_LOCKED"
    ELSE IF gate \in {"chain_unsupported", "chain_capability"}
      THEN "CHAIN_CAPABILITY_BLOCKED"
    ELSE IF gate \in {"allowlist", "selfmod_policy"} THEN "ACTION_BLOCKED"
    ELSE IF type = "self_modify"
            /\ gate \in {"rate_limited", "protected", "out_of_scope"}
      THEN "SECURITY_POLICY_VIOLATION"
    ELSE "ACTION_FAILED"

----------------------------------------------------------------------------
(* The brain client: OpenAiBrainProvider.generateTurn *)

\* The turn the client returns for a failure: one noop, marked malformed.
ClientFailure(summary, reason) ==
    [throws |-> FALSE, summary |-> summary, isArray |-> TRUE,
     nextActions |-> <<Noop(reason)>>, integrity |-> "malformed",
     hasSleep |-> FALSE, sleepMs |-> 0, facts |-> <<>>, episodes |-> <<>>]

EMPTY_TURN == ClientFailure("No actionable output generated.", "empty_output")

\* The client's own set of action types.
ALLOWED_ACTIONS ==
    {"send_message", "replicate", "self_modify", "record_fact",
     "record_episode", "invoke_tool", "sleep", "noop"}

\* isRetriableStatus(status)
IsRetriableStatus(status) ==
    status \in {408, 409, 425, 429, 500, 502, 503, 504}

\* One attempt more than the configuration gives.
MaxAttemptsPlusOne(maxRetries) == Max(1, maxRetries + 1) + 1

\* maxAttempts = Math.max(1, this.config.maxRetries + 1)
MaxAttempts(maxRetries) == Max(1, maxRetries + 1)

\* sanitizeOutput(raw): raw is the parsed JSON of the model.
SanitizeOutput(raw) ==
    LET rawActions == IF raw.isArray THEN raw.nextActions ELSE <<>>
        kept == SelectSeq(rawActions, LAMBDA x : x.type \in ALLOWED_ACTIONS)
    IN
    [throws |-> FALSE,
     summary |-> IF Trim(raw.summary) = ""
                   THEN "Autonomy turn generated without summary."
                   ELSE Trim(raw.summary),
     isArray |-> TRUE,
     nextActions |-> IF Len(kept) > 0 THEN kept
                     ELSE <<Noop("no_actions")>>,
     integrity |-> "ok",
     hasSleep |-> raw.hasSleep, sleepMs |-> raw.sleepMs,
     facts |-> SelectSeq(raw.facts, LAMBDA f : f.key # "" /\ f.value # ""),
     episodes |-> SelectSeq(raw.episodes, LAMBDA e : e # "")]

\* The body of one successful response: extractText, parseJsonObject,
\* sanitizeOutput.
ReadResponse(r) ==
    IF r.text = "empty" THEN EMPTY_TURN
    ELSE IF r.text = "invalid"
      THEN ClientFailure("Brain output was not valid JSON.", "invalid_json")
    ELSE SanitizeOutput(r.raw)

\* The retry loop of generateTurn from attempt number `attempt` on, against
\* an endpoint that answers attempt k with responses[k]: the turn returned
\* and the number of requests made.
RECURSIVE AttemptFrom(_, _)
AttemptFrom(brain, attempt) ==
    LET maxAttempts == MaxAttempts(brain.maxRetries)
        r == brain.responses[attempt]
    IN
    IF attempt > maxAttempts
      THEN [out |-> ClientFailure("Brain request aborted after retries.",
                                  "retry_exhausted"),
            attempts |-> attempt - 1]
    ELSE IF r.kind = "status"
      THEN (IF IsRetriableStatus(r.status) /\ attempt < maxAttempts
              THEN AttemptFrom(brain, attempt + 1)
              ELSE [out |-> ClientFailure("Brain request failed (status).",
                                          "request_failed"),
                    attempts |-> attempt])
    ELSE IF r.kind = "exception"
      THEN (IF attempt >= maxAttempts
              THEN [out |-> ClientFailure("Brain request failed: error",
                                          "request_exception"),
                    attempts |-> attempt]
              ELSE AttemptFrom(brain, attempt + 1))
    ELSE [out |-> ReadResponse(r), attempts |-> attempt]

\* generateTurn(input)
GenerateTurn(brain) ==
    IF ~brain.hasApiKey
      THEN [out |-> ClientFailure("Brain skipped: missing API key env.",
                                  "missing_api_key"),
            attempts |-> 0]
      ELSE AttemptFrom(brain, 1)

----------------------------------------------------------------------------
(* The turn orchestrator: run(), in the steps between its suspensions *)

IdleTick ==
    [pc |-> "idle", n |-> 0, tier |-> "none", polled |-> <<>>, inbox |-> {},
     queueDepth |-> 0, malformed |-> FALSE, streak |-> 0, summary |-> "",
     actions |-> <<>>, proposed |-> <<>>, idx |-> 0, log |-> <<>>,
     failures |-> 0, hasSleep |-> FALSE, sleepMs |-> 0, facts |-> <<>>,
     eps |-> <<>>]

\* evaluateSurvivalTier: the tier of the liquidity estimate.
EvaluateSurvivalTier ==
    IF usdEnv <= config.survival.deadUsd THEN "dead"
    ELSE IF usdEnv <= config.survival.criticalUsd THEN "critical"
    ELSE IF usdEnv <= config.survival.lowComputeUsd THEN "low_compute"
    ELSE "normal"

\* The daemon loop's handling of the end of its tick: result is "ok" or the
\* error the tick threw.
DeadState(result) == result = "dead"

\* The count without the reset of a successful tick.
ErrorsAfterNoReset(result) ==
    IF result = "ok" THEN consecutiveErrors ELSE consecutiveErrors + 1

\* consecutiveErrors after the try / catch of the loop.
ErrorsAfter(result) == IF result = "ok" THEN 0 ELSE consecutiveErrors + 1

DaemonStops(result) ==
    /\ result # "ok"
    /\ \/ DeadState(result)
       \/ ErrorsAfter(result) >= config.maxConsecutiveErrors

DaemonIncidents(c, result) ==
    IF c = "daemon" /\ result # "ok"
      THEN <<Incident("DAEMON_FAILURE",
                      IF DeadState(result) THEN "critical" ELSE "warning",
                      "daemon", result, ErrorsAfter(result), 0)>>
      ELSE <<>>

\* The agent state after the tick left `state` and the loop handled `result`.
AgentStateAfter(c, result, state) ==
    IF c = "daemon" /\ DaemonStops(result)
      THEN (IF DeadState(result) THEN "dead" ELSE "stopped")
      ELSE state

\* The sleep the loop takes after a tick, from kv autonomy_next_sleep_ms.
NextSleep(kv) ==
    LET requested == IF kv = -1 THEN config.defaultIntervalMs ELSE kv
    IN IF requested > 0 THEN Min(requested, config.maxSleepMs)
       ELSE config.defaultIntervalMs

\* The end of run() for its caller: the daemon loop handles the result and
\* goes to sleep; a direct caller just gets it.  `running` is the value of
\* this.daemonRunning when the tick ends.
TickExit(c, result, running) ==
    /\ ticks' = [ticks EXCEPT ![c] = IdleTick]
    /\ IF c = "daemon"
         THEN /\ consecutiveErrors' = ErrorsAfter(result)
              /\ daemonRunning' = IF DaemonStops(result) THEN FALSE
                                  ELSE running
              /\ daemonPc' = "sleep"
              /\ wakeAt' = now + NextSleep(kvNextSleep')
              /\ lastDaemon' = [result |-> result,
                                errorsBefore |-> consecutiveErrors,
                                errorsAfter |-> consecutiveErrors',
                                runningBefore |-> running,
                                running |-> daemonRunning',
                                state |-> agentState',
                                tick |-> tickCount']
         ELSE UNCHANGED daemonVars

\* The loop while its tick is in progress.
TickContinues(c) ==
    IF c = "daemon"
      THEN /\ daemonRunning' = TRUE
           /\ daemonPc' = "tick"
           /\ UNCHANGED <<consecutiveErrors, wakeAt, lastDaemon>>
      ELSE UNCHANGED daemonVars

\* pollMessages(limit): the unprocessed rows, oldest first.
Unprocessed(table) == {m \in DOMAIN table : table[m].processedAt = -1}

\* The oldest rows whether processed or not.
PollMessagesUnfiltered(table, limit) ==
    IF Cardinality(DOMAIN table) <= limit THEN DOMAIN table
    ELSE CHOOSE S \in SUBSET DOMAIN table :
            /\ Cardinality(S) = limit
            /\ \A x \in S, y \in DOMAIN table \ S :
                  table[x].receivedAt <= table[y].receivedAt

\* pollMessages(limit)
PollMessages(table, limit) ==
    IF Cardinality(Unprocessed(table)) <= limit THEN Unprocessed(table)
    ELSE CHOOSE S \in SUBSET Unprocessed(table) :
            /\ Cardinality(S) = limit
            /\ \A x \in S, y \in Unprocessed(table) \ S :
                  table[x].receivedAt <= table[y].receivedAt

\* The rows of the polled transport messages that insertMessage stores: the
\* INSERT of an id already stored throws, the rows before it stay.
FirstDuplicate(polled) ==
    LET dups == {i \in 1..Len(polled) : polled[i].id \in DOMAIN messages}
    IN IF dups = {} THEN 0
       ELSE CHOOSE i \in dups : \A j \in dups : i <= j

InsertPolled(polled) ==
    LET k    == FirstDuplicate(polled)
        upto == IF k = 0 THEN Len(polled) ELSE k - 1
        new  == {polled[i].id : i \in 1..upto}
        row(id) == LET i == CHOOSE j \in 1..upto : polled[j].id = id
                   IN MessageRow(polled[i].receivedAt, polled[i].own)
    IN [m \in DOMAIN messages \cup new |->
            IF m \in new THEN row(m) ELSE messages[m]]

\* The conversations syncMessagingInbox upserts for the polled messages it
\* stores: the thread of the sender, for a message that names none.  (The
\* agent's own messages are stored by sendMessage and never get this far.)
PolledThreads(polled) ==
    LET k    == FirstDuplicate(polled)
        upto == IF k = 0 THEN Len(polled) ELSE k - 1
    IN {DmThread("peer") : i \in {j \in 1..upto : ~polled[j].own}}

\* Lines 335-347 of run(): count the queue, claim the inbox, mark it.
ClaimInbox(c, table) ==
    LET inbound == PollMessages(table, INBOX_POLL_LIMIT) IN
    /\ messages' = [m \in DOMAIN table |->
                        IF m \in inbound
                          THEN [table[m] EXCEPT !.processedAt = now]
                          ELSE table[m]]
    /\ inboxOf' = [m \in DOMAIN table |->
                        LET old == IF m \in DOMAIN inboxOf THEN inboxOf[m] ELSE {}
                        IN IF m \in inbound THEN old \cup {ticks'[c].n} ELSE old]
    /\ processedLog' = [m \in DOMAIN table |->
                        LET old == IF m \in DOMAIN processedLog
                                     THEN processedLog[m] ELSE <<>>
                        IN IF m \in inbound THEN Append(old, now) ELSE old]

\* The local state of run() when it reaches the brain call.
AtBrain(c, n, tier, table) ==
    [IdleTick EXCEPT !.pc = "brain", !.n = n, !.tier = tier,
                     !.inbox = PollMessages(table, INBOX_POLL_LIMIT),
                     !.queueDepth = Cardinality(Unprocessed(table))]

\* run(input) up to its first suspension.
RunStart(c, dryRun) ==
    LET tier == EvaluateSurvivalTier IN
    /\ ticks[c].pc = "idle"
    /\ tickCount' = tickCount + 1
    /\ UNCHANGED <<envVars, brainLog, now, emergency, walletVars,
                   selfModVars, replVars, memVars, telemetry, alerts,
                   alertMarkers, kvStreak, kvNextSleep, lastAttempt>>
    /\ IF emergency
       THEN /\ agentState' = AgentStateAfter(c, "emergency", agentState)
            /\ incidents' = incidents \o DaemonIncidents(c, "emergency")
            /\ UNCHANGED <<latestTier, msgVars, turns>>
            /\ TickExit(c, "emergency", c = "daemon" \/ daemonRunning)
       ELSE /\ latestTier' = tier
            /\ IF tier = "dead"
               THEN /\ agentState' = AgentStateAfter(c, "dead", "dead")
                    /\ incidents' = incidents \o DaemonIncidents(c, "dead")
                    /\ UNCHANGED <<msgVars, turns>>
                    /\ TickExit(c, "dead", c = "daemon" \/ daemonRunning)
               ELSE IF dryRun
               THEN /\ agentState' = AgentStateAfter(c, "ok", "sleeping")
                    /\ turns' = Append(turns,
                          [n |-> tickCount', dryRun |-> TRUE, inbox |-> {},
                           actionCount |-> 0, actionFailureCount |-> 0,
                           actions |-> <<>>, malformed |-> FALSE,
                           streak |-> 0, queueDepth |-> 0, at |-> now])
                    /\ UNCHANGED <<msgVars, incidents>>
                    /\ TickExit(c, "ok", c = "daemon" \/ daemonRunning)
               ELSE /\ agentState' = IF tier = "normal" THEN "running" ELSE tier
                    /\ UNCHANGED <<turns, incidents>>
                    /\ TickContinues(c)
                    /\ IF config.hasMessaging
                       THEN /\ ticks' = [ticks EXCEPT ![c] =
                                  [IdleTick EXCEPT
                                     !.pc = "sync", !.n = tickCount',
                                     !.tier = tier,
                                     !.polled = TransportPoll(lastPollAt,
                                                              SYNC_POLL_LIMIT)]]
                            /\ UNCHANGED msgVars
                       ELSE /\ ticks' = [ticks EXCEPT ![c] =
                                  AtBrain(c, tickCount', tier, messages)]
                            /\ ClaimInbox(c, messages)
                            /\ UNCHANGED <<transportQueue, lastPollAt,
                                           conversations, knownThreads>>

\* syncMessagingInbox after transport.poll has returned, and the claim of the
\* inbox that follows it without a suspension.
SyncDone(c) ==
    LET t     == ticks[c]
        table == InsertPolled(t.polled)
    IN
    /\ t.pc = "sync"
    /\ UNCHANGED <<envVars, brainLog, now, emergency, latestTier, walletVars,
                   selfModVars, replVars, tickCount, memVars, rowVars,
                   transportQueue, knownThreads, lastAttempt>>
    /\ conversations' = conversations \cup PolledThreads(t.polled)
    /\ IF FirstDuplicate(t.polled) # 0
       THEN /\ messages' = table
            /\ inboxOf' = [m \in DOMAIN table |->
                              IF m \in DOMAIN inboxOf THEN inboxOf[m] ELSE {}]
            /\ processedLog' = [m \in DOMAIN table |->
                              IF m \in DOMAIN processedLog
                                THEN processedLog[m] ELSE <<>>]
            /\ UNCHANGED lastPollAt
            /\ agentState' = AgentStateAfter(c, "storage", agentState)
            /\ incidents' = incidents \o DaemonIncidents(c, "storage")
            /\ TickExit(c, "storage", daemonRunning)
       ELSE /\ lastPollAt' = now
            /\ ticks' = [ticks EXCEPT ![c] = AtBrain(c, t.n, t.tier, table)]
            /\ ClaimInbox(c, table)
            /\ UNCHANGED <<agentState, incidents, daemonVars>>

\* What run() substitutes for the brain's output when generateTurn throws.
BrainFailureOutput ==
    [throws |-> FALSE, summary |-> "Brain failure", isArray |-> TRUE,
     nextActions |-> <<Noop("brain_failure")>>, integrity |-> "malformed",
     hasSleep |-> FALSE, sleepMs |-> 0, facts |-> <<>>, episodes |-> <<>>]

\* The validated list whatever the validation says.
ExecutableActionsAsValidated(validation) == validation.output.nextActions

\* executableActions
ExecutableActions(validation) ==
    IF validation.malformed THEN <<Noop("malformed_output")>>
    ELSE validation.output.nextActions

\* The streak left as it is.
KeepBrainFailureStreak == kvStreak

\* resetBrainFailureStreak
ResetBrainFailureStreak == 0

\* incrementBrainFailureStreak
IncrementBrainFailureStreak == kvStreak + 1

\* run() from the return of brain.generateTurn to the start of the action
\* loop: validation, the failure streak and the fail-safe threshold.
BrainReturn(c, out) ==
    LET t           == ticks[c]
        validation  == ValidateBrainTurnOutput(
                          IF out.throws THEN BrainFailureOutput ELSE out,
                          config.maxActionsPerTurn, config.maxSleepMs,
                          config.strictActionAllowlist)
        brainFailed == out.throws \/ validation.malformed
        streak      == IF brainFailed THEN IncrementBrainFailureStreak
                       ELSE ResetBrainFailureStreak
        threshold   == streak >= config.maxBrainFailuresBeforeStop
        raised      ==
            (IF out.throws
               THEN <<Incident("BRAIN_REQUEST_FAILED", "error", "brain",
                               "generation_failed", 0, 0)>>
               ELSE <<>>)
            \o (IF validation.malformed
                  THEN <<Incident("BRAIN_OUTPUT_MALFORMED", "error", "brain",
                                  "failed_validation", 0, 0)>>
                  ELSE <<>>)
            \o (IF threshold
                  THEN <<Incident("BRAIN_REQUEST_FAILED", "critical", "brain",
                                  "streak_threshold", streak,
                                  config.maxBrainFailuresBeforeStop)>>
                  ELSE <<>>)
    IN
    /\ t.pc = "brain"
    /\ kvStreak' = streak
    /\ brainLog' = Append(brainLog,
          [n |-> t.n, out |-> IF out.throws THEN BrainFailureOutput ELSE out,
           malformed |-> validation.malformed, threshold |-> threshold,
           validated |-> validation.output])
    /\ UNCHANGED <<envVars, now, emergency, latestTier, walletVars, msgVars,
                   selfModVars, replVars, tickCount, memVars, turns,
                   telemetry, alerts, alertMarkers, kvNextSleep, lastAttempt>>
    /\ IF threshold
       THEN /\ agentState' = AgentStateAfter(c, "brain_threshold", agentState)
            /\ incidents' = incidents \o raised
                              \o DaemonIncidents(c, "brain_threshold")
            /\ TickExit(c, "brain_threshold", daemonRunning)
       ELSE /\ ticks' = [ticks EXCEPT ![c] =
                  [t EXCEPT !.pc = "act",
                            !.malformed = validation.malformed,
                            !.streak = streak,
                            !.summary = validation.output.summary,
                            !.proposed = IF out.throws THEN <<>>
                                         ELSE out.nextActions,
                            !.actions = ExecutableActions(validation),
                            !.idx = 1,
                            !.hasSleep = validation.output.hasSleep,
                            !.sleepMs = validation.output.sleepMs,
                            !.facts = validation.output.facts,
                            !.eps = validation.output.episodes]]
            /\ incidents' = incidents \o raised
            /\ UNCHANGED <<agentState, daemonVars>>

\* An entry of the tick's actionLog.
LogEntry(ok, type, detail, n) ==
    [ok |-> ok, type |-> type, detail |-> detail, n |-> n]

\* The string executeBrainAction returns for the action.
ActionResult(action) ==
    IF action.type = "noop"
      THEN LogEntry(TRUE, "noop",
                    IF action.reason = "" THEN "none" ELSE action.reason, 0)
    ELSE IF action.type = "sleep"
      THEN (IF action.n > 0
              THEN LogEntry(TRUE, "sleep", "", Min(action.n, config.maxSleepMs))
              ELSE LogEntry(TRUE, "sleep", "default", 0))
    ELSE LogEntry(TRUE, action.type, action.a, 0)

\* upsertMemoryFact
UpsertFact(table, key, value) ==
    [k \in DOMAIN table \cup {key} |-> IF k = key THEN value ELSE table[k]]

\* A catch that records nothing.
NoFailureIncidents(action, gate) == <<>>

\* The catch of the action loop: one warning incident for the failed action.
FailureIncidents(action, gate) ==
    IF gate = "ok" THEN <<>>
    ELSE <<Incident(ActionFailureCode(action.type, gate), "warning", "action",
                    gate, 0, 0)>>

MutatingTypes == {"send_message", "replicate", "self_modify"}

\* One round of the action loop: executeBrainAction and its catch.  A
\* replicate action that passed its gates stays suspended at createSandbox.
ActStep(c) ==
    LET t      == ticks[c]
        action == t.actions[t.idx]
        gate   == ExecuteGate(action)
        ok     == gate = "ok"
    IN
    /\ t.pc = "act"
    /\ t.idx <= Len(t.actions)
    /\ UNCHANGED <<envVars, brainLog, now, ctlVars, walletVars, tickCount, turns,
                   telemetry, alerts, alertMarkers, kvStreak, daemonVars,
                   children>>
    /\ IF action.type = "self_modify" /\ ReachesOperation(action)
         THEN SelfModifyEffect(action.raw, action.b)
         ELSE UNCHANGED selfModVars
    /\ IF action.type = "send_message" /\ ok
         THEN SendMessageEffect(action.a, NoThread)
         ELSE IF action.type = "invoke_tool" /\ ok
         THEN InvokeToolEffect(action.a, action.b)
         ELSE UNCHANGED msgVars
    /\ pendingReplicate' =
          IF action.type = "replicate" /\ ok
            THEN [pendingReplicate EXCEPT
                    ![c] = [active |-> TRUE, funding |-> action.n]]
            ELSE pendingReplicate
    /\ facts' = IF action.type = "record_fact" /\ ok
                  THEN UpsertFact(facts, action.a, action.b)
                  ELSE facts
    /\ episodes' = IF action.type = "record_episode" /\ ok
                     THEN Append(episodes, [summary |-> action.a,
                                            actionType |-> "brain_action"])
                     ELSE episodes
    /\ kvNextSleep' = IF action.type = "sleep" /\ ok /\ action.n > 0
                        THEN Min(action.n, config.maxSleepMs)
                        ELSE kvNextSleep
    /\ incidents' = incidents \o FailureIncidents(action, gate)
    /\ ticks' = [ticks EXCEPT ![c] =
          IF action.type = "replicate" /\ ok
            THEN [t EXCEPT !.pc = "replicate"]
            ELSE [t EXCEPT
                    !.idx = t.idx + 1,
                    !.failures = IF ok THEN t.failures ELSE t.failures + 1,
                    !.log = Append(t.log,
                              IF ok THEN ActionResult(action)
                              ELSE LogEntry(FALSE, action.type, gate, 0))]]
    /\ lastAttempt' =
          IF action.type \in MutatingTypes
            THEN [Attempt(action.type, "brain", gate,
                         IF ok THEN "none"
                         ELSE ActionFailureCode(action.type, gate),
                         <<files, backups, mutations, rollbackPoints, kvBackup,
                           selfModTimestamps, transportQueue, messages,
                           children, pendingReplicate>>'
                         # <<files, backups, mutations, rollbackPoints,
                             kvBackup, selfModTimestamps, transportQueue,
                             messages, children, pendingReplicate>>)
                    EXCEPT !.refusing = RefusingGates(action)]
            ELSE lastAttempt

\* The rest of a replicate action after createSandbox has returned or thrown.
ActReplicateDone(c, providerOk) ==
    LET t      == ticks[c]
        action == t.actions[t.idx]
        result == ReplicateResult(pendingReplicate[c], providerOk)
    IN
    /\ t.pc = "replicate"
    /\ ReplicateFinishEffect(c, providerOk)
    /\ incidents' = incidents
                      \o LineageIncidents(pendingReplicate[c], providerOk)
                      \o FailureIncidents(action, result)
    /\ ticks' = [ticks EXCEPT ![c] =
          [t EXCEPT !.pc = "act",
                    !.idx = t.idx + 1,
                    !.failures = IF result = "ok" THEN t.failures
                                 ELSE t.failures + 1,
                    !.log = Append(t.log,
                              IF result = "ok"
                                THEN LogEntry(TRUE, "replicate", "", 0)
                                ELSE LogEntry(FALSE, "replicate", result, 0))]]
    /\ UNCHANGED <<envVars, brainLog, now, ctlVars, walletVars, selfModVars, tickCount,
                   memVars, rowVars, daemonVars, lastAttempt>>

\* The memoryWrites of a validated output, applied in order.
RECURSIVE ApplyFacts(_, _)
ApplyFacts(table, writes) ==
    IF writes = <<>> THEN table
    ELSE ApplyFacts(UpsertFact(table, Head(writes).key, Head(writes).value),
                    Tail(writes))

EpisodeRows(writes) ==
    [i \in 1..Len(writes) |-> [summary |-> writes[i], actionType |-> "memory_write"]]

\* listRuntimeIncidents(500) filtered to the evaluation window.
WindowIncidents(rows) ==
    {i \in DOMAIN rows :
        /\ Cardinality({j \in DOMAIN rows : rows[j].at > rows[i].at})
              < ALERT_INCIDENT_LIMIT
        /\ rows[i].at >= now - config.alerting.evaluationWindowMinutes * 60000}

CriticalCount(rows) ==
    Cardinality({i \in WindowIncidents(rows) : rows[i].severity = "critical"})

AlertCandidate(severity, kind, n1, n2) ==
    [severity |-> severity, kind |-> kind, n1 |-> n1, n2 |-> n2]

\* alertCandidates of evaluateAndRouteAlerts, in the order they are pushed.
AlertCandidates(rows, tier, queueDepth, streak) ==
    (IF tier = "dead"
       THEN <<AlertCandidate("critical", "survival_dead", 0, 0)>> ELSE <<>>)
    \o (IF CriticalCount(rows) >= config.alerting.criticalIncidentThreshold
          THEN <<AlertCandidate("critical", "critical_incidents",
                                CriticalCount(rows),
                                config.alerting.criticalIncidentThreshold)>>
          ELSE <<>>)
    \o (IF streak >= config.alerting.brainFailureThreshold
          THEN <<AlertCandidate("critical", "brain_failure_streak", streak,
                                config.alerting.brainFailureThreshold)>>
          ELSE <<>>)
    \o (IF queueDepth >= config.alerting.queueDepthThreshold
          THEN <<AlertCandidate("warning", "queue_depth", queueDepth,
                                config.alerting.queueDepthThreshold)>>
          ELSE <<>>)

\* No de-duplication.
AlertNeverSuppressed(candidate) == FALSE

\* The 60-second de-duplication on the kv marker of (severity, message).
AlertSuppressed(candidate) ==
    LET last == IF candidate \in DOMAIN alertMarkers
                  THEN alertMarkers[candidate] ELSE 0
    IN now - last < ALERT_DEDUP_MS

\* The candidates evaluateAndRouteAlerts writes.
FiredAlerts(rows, tier, queueDepth, streak) ==
    IF ~config.alerting.enabled THEN <<>>
    ELSE SelectSeq(AlertCandidates(rows, tier, queueDepth, streak),
                   LAMBDA x : ~AlertSuppressed(x))

\* run() after the action loop: memory writes, the turn's episode, the
\* requested sleep, the Turn and telemetry rows, the alerts, and the return.
Finish(c) ==
    LET t     == ticks[c]
        fired == FiredAlerts(incidents, t.tier, t.queueDepth, t.streak)
    IN
    /\ t.pc = "act"
    /\ t.idx > Len(t.actions)
    /\ facts' = IF ~t.malformed THEN ApplyFacts(facts, t.facts) ELSE facts
    /\ episodes' =
          (episodes \o (IF ~t.malformed THEN EpisodeRows(t.eps) ELSE <<>>))
          \o <<[summary |-> t.summary,
                actionType |-> IF Len(t.log) > 0 THEN "autonomy_turn"
                               ELSE "autonomy_idle"]>>
    /\ kvNextSleep' = IF t.hasSleep THEN t.sleepMs ELSE config.defaultIntervalMs
    /\ turns' = Append(turns,
          [n |-> t.n, dryRun |-> FALSE, inbox |-> t.inbox,
           actionCount |-> Len(t.log), actionFailureCount |-> t.failures,
           actions |-> t.log, malformed |-> t.malformed, streak |-> t.streak,
           queueDepth |-> t.queueDepth, at |-> now])
    /\ telemetry' = Append(telemetry,
          [turn |-> t.n, tier |-> t.tier, queueDepth |-> t.queueDepth,
           actionsTotal |-> Len(t.actions), actionFailures |-> t.failures,
           brainFailures |-> t.streak])
    /\ alertMarkers' = [k \in DOMAIN alertMarkers
                              \cup {fired[i] : i \in DOMAIN fired} |->
                          IF \E i \in DOMAIN fired : fired[i] = k
                            THEN now ELSE alertMarkers[k]]
    /\ alerts' = alerts \o [i \in DOMAIN fired |->
                              [code |-> "ALERT_TRIGGERED",
                               severity |-> fired[i].severity,
                               kind |-> fired[i].kind, n1 |-> fired[i].n1,
                               n2 |-> fired[i].n2, at |-> now]]
    /\ incidents' = incidents \o [i \in DOMAIN fired |->
                        Incident("ALERT_TRIGGERED", fired[i].severity, "alert",
                                 fired[i].kind, fired[i].n1, fired[i].n2)]
    /\ agentState' = AgentStateAfter(c, "ok", "sleeping")
    /\ tickCount' = tickCount
    /\ TickExit(c, "ok", daemonRunning)
    /\ UNCHANGED <<envVars, brainLog, now, emergency, latestTier, walletVars, msgVars,
                   selfModVars, replVars, kvStreak, lastAttempt>>

----------------------------------------------------------------------------
(* The daemon scheduler, the direct callers, and the environment *)

\* run() called through the CLI or the HTTP surface.
RunOnce(dryRun) ==
    /\ RunStart("api", dryRun)

\* runDaemon(): the loop's first iteration starts a tick at once.
RunDaemon ==
    /\ daemonPc = "off"
    /\ RunStart("daemon", FALSE)

\* The loop after sleep(nextSleep): the next tick, or the end of the loop.
DaemonWake ==
    /\ daemonPc = "sleep"
    /\ now >= wakeAt
    /\ IF daemonRunning
         THEN RunStart("daemon", FALSE)
         ELSE /\ daemonPc' = "off"
              /\ consecutiveErrors' = 0
              /\ UNCHANGED <<daemonRunning, wakeAt, lastDaemon>>
              /\ UNCHANGED <<envVars, brainLog, now, ctlVars, walletVars, msgVars,
                             selfModVars, replVars, tickVars, memVars,
                             rowVars, incidents, lastAttempt>>

\* stopDaemon()
StopDaemon ==
    /\ daemonRunning
    /\ daemonRunning' = FALSE
    /\ UNCHANGED <<daemonPc, consecutiveErrors, wakeAt, lastDaemon>>
    /\ UNCHANGED <<envVars, brainLog, now, ctlVars, walletVars, msgVars, selfModVars,
                   replVars, tickVars, memVars, rowVars, incidents,
                   lastAttempt>>

\* The loop's sleep(nextSleep) elapses.
SleepElapses ==
    /\ daemonPc = "sleep"
    /\ now < wakeAt
    /\ now' = wakeAt
    /\ UNCHANGED <<envVars, brainLog, ctlVars, walletVars, msgVars,
                   selfModVars, replVars, tickVars, memVars, rowVars,
                   incidents, daemonVars, lastAttempt>>

AdvanceTime(d, cap) ==
    /\ now + d <= cap
    /\ now' = now + d
    /\ UNCHANGED <<envVars, brainLog, ctlVars, walletVars, msgVars, selfModVars,
                   replVars, tickVars, memVars, rowVars, incidents,
                   daemonVars, lastAttempt>>

\* emergencyStop(reason)
EmergencyStop ==
    /\ ~emergency
    /\ emergency' = TRUE
    /\ agentState' = "stopped"
    /\ daemonRunning' = FALSE
    /\ UNCHANGED <<daemonPc, consecutiveErrors, wakeAt, lastDaemon>>
    /\ UNCHANGED <<envVars, brainLog, now, latestTier, walletVars, msgVars, selfModVars,
                   replVars, tickVars, memVars, rowVars, incidents,
                   lastAttempt>>

\* clearEmergencyStop()
ClearEmergencyStop ==
    /\ emergency
    /\ emergency' = FALSE
    /\ agentState' = "sleeping"
    /\ UNCHANGED <<envVars, brainLog, now, latestTier, walletVars, msgVars, selfModVars,
                   replVars, tickVars, memVars, rowVars, incidents,
                   daemonVars, lastAttempt>>

----------------------------------------------------------------------------
(* Configurations and initial states *)

HomeDir == <<"home">>

WorkDir == <<"work">>

\* createDefaultConfig, with the directories and the protected path of the
\* model and both dependencies (messaging transport, compute provider) given.
DefaultConfig ==
    [cwd |-> WorkDir, homeDir |-> HomeDir,
     protectedPaths |-> {<<"home", "laws">>},
     aggressiveSelfMod |-> TRUE,
     hasMessaging |-> TRUE,
     hasProvider |-> TRUE,
     maxChildren |-> 3,
     walletSessionTtlSec |-> 900,
     chain |-> [known |-> TRUE, messaging |-> TRUE, payments |-> TRUE],
     strictActionAllowlist |-> TRUE,
     allowSelfModifyAction |-> FALSE,
     maxActionsPerTurn |-> 6,
     maxSleepMs |-> 300000,
     defaultIntervalMs |-> 30000,
     maxConsecutiveErrors |-> 5,
     maxBrainFailuresBeforeStop |-> 5,
     survival |-> [lowComputeUsd |-> 10, criticalUsd |-> 2, deadUsd |-> 0],
     alerting |-> [enabled |-> TRUE, criticalIncidentThreshold |-> 1,
                   brainFailureThreshold |-> 3, queueDepthThreshold |-> 100,
                   evaluationWindowMinutes |-> 10],
     brain |-> [hasApiKey |-> TRUE, maxRetries |-> 2, responses |-> <<>>],
     toolSources |-> <<>>,
     tooling |-> [allowExternalSources |-> FALSE, endpointOk |-> TRUE]]

\* The shipped profile of Ethereum Sepolia: no payments.
SepoliaChain == [known |-> TRUE, messaging |-> TRUE, payments |-> FALSE]

\* The tables, the files of the data directory and the fields of the
\* runtime after initialize(), but for the incidents table.
InitTables ==
    /\ now = StartTime
    /\ emergency = FALSE
    /\ agentState = "sleeping"
    /\ account = FALSE
    /\ unlockedUntil = -1
    /\ sessions = <<>>
    /\ transportQueue = <<>>
    /\ lastPollAt = -1
    /\ messages = <<>>
    /\ inboxOf = <<>>
    /\ processedLog = <<>>
    /\ conversations = {}
    /\ knownThreads = {}
    /\ backups = <<>>
    /\ mutations = <<>>
    /\ rollbackPoints = <<>>
    /\ kvBackup = <<>>
    /\ selfModTimestamps = <<>>
    /\ children = <<>>
    /\ pendingReplicate = [k \in Callers \cup {"direct"} |-> NoReplicate]
    /\ ticks = [c \in Callers |-> IdleTick]
    /\ tickCount = 0
    /\ turns = <<>>
    /\ telemetry = <<>>
    /\ alerts = <<>>
    /\ alertMarkers = <<>>
    /\ facts = <<>>
    /\ episodes = <<>>
    /\ kvStreak = 0
    /\ kvNextSleep = -1
    /\ daemonRunning = FALSE
    /\ daemonPc = "off"
    /\ consecutiveErrors = 0
    /\ wakeAt = StartTime
    /\ brainLog = <<>>
    /\ lastDaemon = NoDaemon
    /\ lastSelfMod = NoSelfMod
    /\ lastRollback = NoRollback
    /\ lastAttempt = NoAttempt

\* The legacy AgentRuntime is not constructed.
InitLegacy ==
    /\ minJobPayment = 0
    /\ minPayment = 0
    /\ balance = 0
    /\ survivalChecks = 0

\* The state after construction and initialize(), but for the incidents
\* table: the migrations have brought the schema to the version of the
\* code.
InitStore ==
    /\ InitTables
    /\ InitLegacy
    /\ schemaVersion = SCHEMA_VERSION
    /\ startup = "started"

InitCommon ==
    /\ InitStore
    /\ incidents = <<>>

\* A brain output.
Output(summary, nextActions, integrity, factWrites, episodeWrites) ==
    [throws |-> FALSE, summary |-> summary, isArray |-> TRUE,
     nextActions |-> nextActions, integrity |-> integrity,
     hasSleep |-> FALSE, sleepMs |-> 0, facts |-> factWrites,
     episodes |-> episodeWrites]

BrainThrows == [Output("", <<>>, "ok", <<>>, <<>>) EXCEPT !.throws = TRUE]

----------------------------------------------------------------------------
(* SpecRate: the rate limit of selfModify.  One target file; every call     *)
(* writes a content the file never held, so a write is visible.            *)

RateTarget == [abs |-> TRUE, segs |-> <<"home", "x">>]

InitRate ==
    /\ InitCommon
    /\ usdEnv = 100
    /\ latestTier = None
    /\ config \in {DefaultConfig, [DefaultConfig EXCEPT !.aggressiveSelfMod = FALSE]}
    /\ files = (<<"home", "x">> :> 0)

NextRate ==
    \/ /\ Len(mutations) < MaxSelfModCalls
       /\ SelfModify(RateTarget, Len(mutations) + 1)
    \/ \E d \in {HalfWindow, HalfWindow + 1} :
          AdvanceTime(d, StartTime + MaxClockSteps * (HalfWindow + 1))
    \/ EmergencyStop
    \/ ClearEmergencyStop

SpecRate == InitRate /\ [][NextRate]_vars

----------------------------------------------------------------------------
(* SpecPath: the protected-path and scope gates of selfModify.             *)

PathSegs == {"home", "laws", ".."}

RawPaths ==
    [abs : BOOLEAN, segs : UNION {[1..n -> PathSegs] : n \in 0..3}]

InitPath ==
    /\ InitCommon
    /\ usdEnv = 100
    /\ latestTier = None
    /\ config \in {DefaultConfig,
                    [DefaultConfig EXCEPT !.cwd = <<>>],
                    [DefaultConfig EXCEPT !.protectedPaths =
                        {<<"home", "laws">>, <<"work", "home">>}]}
    /\ files = (<<"home", "laws", "home">> :> "A")

NextPath ==
    \/ /\ Len(mutations) < MaxPathMutations
       /\ \E raw \in RawPaths : SelfModify(raw, "B")
    \/ AdvanceTime(1, StartTime + 1)

SpecPath == InitPath /\ [][NextPath]_vars

----------------------------------------------------------------------------
(* SpecRollback: selfModify followed by rollbackSelfMod, also within one   *)
(* millisecond.                                                            *)

RollbackTargets ==
    {[abs |-> TRUE, segs |-> <<"home", "a", "x">>],
     [abs |-> TRUE, segs |-> <<"home", "b", "x">>],
     [abs |-> FALSE, segs |-> <<"y">>]}

InitRollback ==
    /\ InitCommon
    /\ usdEnv = 100
    /\ latestTier = None
    /\ config = DefaultConfig
    /\ files = (<<"home", "a", "x">> :> "A")

NextRollback ==
    \/ /\ Len(mutations) < MaxRollbackMutations
       /\ \E raw \in RollbackTargets, c \in {"A", "B"} : SelfModify(raw, c)
    \/ \E raw \in RollbackTargets : RollbackSelfMod(raw)
    \/ AdvanceTime(1, StartTime + MaxRollbackMutations)

SpecRollback == InitRollback /\ [][NextRollback]_vars

----------------------------------------------------------------------------
(* SpecGate: the mutating operations, issued as brain actions inside a     *)
(* tick and directly, against the emergency stop, the survival tier, the   *)
(* wallet session and the chain capabilities.                              *)

MaxGateTicks == 1

MaxGateMessages == 1

MaxGateUnlocks == 1

GateTarget == [abs |-> TRUE, segs |-> <<"home", "x">>]

GateConfig ==
    [DefaultConfig EXCEPT !.allowSelfModifyAction = TRUE, !.maxChildren = 1]

SendAction == Action("send_message", "", "peer", "hi", 0, NoPath)

ReplicateAction(funding) == Action("replicate", "", "", "", funding, NoPath)

SelfModifyAction == Action("self_modify", "", "", "B", 0, GateTarget)

GateOutputs ==
    {Output("go", <<SendAction, SelfModifyAction>>, "ok", <<>>, <<>>),
     Output("go", <<ReplicateAction(1)>>, "ok", <<>>, <<>>),
     Output("go", <<ReplicateAction(0), SendAction>>, "ok", <<>>, <<>>)}

InitGate ==
    /\ InitCommon
    /\ usdEnv \in {100, 0}
    /\ latestTier \in {None, "dead"}
    /\ config \in {GateConfig, [GateConfig EXCEPT !.chain = SepoliaChain]}
    /\ files = (<<"home", "x">> :> "A")

\* One direct call, made before any brain action of the behaviour.
DirectCallAllowed == lastAttempt.op = "none"

NextGate ==
    \/ /\ tickCount < MaxGateTicks
       /\ RunOnce(FALSE)
    \/ SyncDone("api")
    \/ \E out \in GateOutputs : BrainReturn("api", out)
    \/ ActStep("api")
    \/ \E providerOk \in BOOLEAN : ActReplicateDone("api", providerOk)
    \/ Finish("api")
    \/ /\ DirectCallAllowed
       /\ SendMessage(MaxGateMessages)
    \/ /\ DirectCallAllowed
       /\ \E funding \in {0, 1} : Replicate(funding)
    \/ \E providerOk \in BOOLEAN : ReplicateDone(providerOk)
    \/ /\ DirectCallAllowed
       /\ SelfModify(GateTarget, "C")
    \/ EmergencyStop
    \/ ClearEmergencyStop
    \/ UnlockWallet(config.walletSessionTtlSec, MaxGateUnlocks)
    \/ LockWallet
    \/ AdvanceTime(config.walletSessionTtlSec * 1000,
                   StartTime + config.walletSessionTtlSec * 1000)

SpecGate == InitGate /\ [][NextGate]_vars

----------------------------------------------------------------------------
(* SpecInbox: messages arriving at the transport and sent by the agent,    *)
(* polled and claimed by ticks of the daemon loop and of direct callers.   *)

MaxInboxTicks == 3

MaxInboxMessages == 2

MaxInboxClock == 2

NoopOutput == Output("go", <<Noop("")>>, "ok", <<>>, <<>>)

InitInbox ==
    /\ InitCommon
    /\ usdEnv = 100
    /\ latestTier = None
    /\ config = DefaultConfig
    /\ files = <<>>

NextInbox ==
    \/ Deliver(MaxInboxMessages)
    \/ SendMessage(MaxInboxMessages)
    \/ /\ tickCount < MaxInboxTicks
       /\ RunOnce(FALSE)
    \/ /\ tickCount < MaxInboxTicks
       /\ RunDaemon
    \/ /\ tickCount < MaxInboxTicks
       /\ DaemonWake
    \/ SleepElapses
    \/ \E c \in Callers : SyncDone(c)
    \/ \E c \in Callers : BrainReturn(c, NoopOutput)
    \/ \E c \in Callers : ActStep(c)
    \/ \E c \in Callers : Finish(c)
    \/ AdvanceTime(1, StartTime + MaxInboxClock)

SpecInbox == InitInbox /\ [][NextInbox]_vars

----------------------------------------------------------------------------
(* SpecDaemon: the daemon loop over ticks whose brain returns a valid      *)
(* output, a malformed one, or throws, with the host stopping the loop and *)
(* setting and clearing the emergency stop.                                *)

MaxDaemonTicks == 5

MalformedOutput == Output("go", <<Noop("")>>, "malformed", <<>>, <<>>)

DaemonOutputs == {NoopOutput, MalformedOutput, BrainThrows}

\* maxBrainFailuresBeforeStop and maxConsecutiveErrors of the configurations.
DaemonLimits == {<<5, 999>>, <<2, 3>>, <<1, 2>>}

InitDaemon ==
    /\ InitCommon
    /\ usdEnv \in {100, 0}
    /\ latestTier = None
    /\ config \in {[DefaultConfig EXCEPT !.maxBrainFailuresBeforeStop = l[1],
                                         !.maxConsecutiveErrors = l[2]] :
                    l \in DaemonLimits}
    /\ files = <<>>

NextDaemon ==
    \/ /\ tickCount < MaxDaemonTicks
       /\ RunDaemon
    \/ /\ tickCount < MaxDaemonTicks \/ ~daemonRunning
       /\ DaemonWake
    \/ SleepElapses
    \/ SyncDone("daemon")
    \/ \E out \in DaemonOutputs : BrainReturn("daemon", out)
    \/ ActStep("daemon")
    \/ Finish("daemon")
    \/ StopDaemon
    \/ EmergencyStop
    \/ ClearEmergencyStop

SpecDaemon == InitDaemon /\ [][NextDaemon]_vars

----------------------------------------------------------------------------
(* SpecBrain: ticks over brain outputs that are valid, malformed in each   *)
(* way the validator knows, or missing because the brain threw.  Every     *)
(* output proposes facts and episodes under keys of its own.               *)

MaxBrainTicks == 3

RecordFact(key, value) == Action("record_fact", "", key, value, 0, NoPath)

RecordEpisode(summary) == Action("record_episode", "", summary, "", 0, NoPath)

FactWrite(key, value) == [key |-> key, value |-> value]

ValidOutput ==
    Output("go", <<RecordFact("k1", "v"), RecordEpisode("a1")>>, "ok",
           <<FactWrite("f1", "v")>>, <<"e1">>)

ProviderMalformedOutput ==
    Output("go", <<RecordFact("k2", "v"), RecordEpisode("a2")>>, "malformed",
           <<FactWrite("f2", "v")>>, <<"e2">>)

MissingSummaryOutput ==
    Output(" ", <<RecordFact("k3", "v")>>, "ok",
           <<FactWrite("f3", "v")>>, <<"e3">>)

MissingActionsOutput ==
    [Output("go", <<>>, "ok", <<FactWrite("f4", "v")>>, <<"e4">>)
        EXCEPT !.isArray = FALSE]

DisallowedActionOutput ==
    Output(" go ",
           <<Action("exec", "", "rm", "", 0, NoPath), RecordFact("k5", "v")>>,
           "ok", <<FactWrite("f5", "v")>>, <<"e5">>)

\* A disallowed action followed by a noop.
ExecNoopOutput ==
    Output("go", <<Action("exec", "", "rm", "", 0, NoPath), Noop("")>>, "ok",
           <<FactWrite("f6", "v")>>, <<"e6">>)

BrainOutputs ==
    {ValidOutput, ProviderMalformedOutput, MissingSummaryOutput,
     MissingActionsOutput, DisallowedActionOutput, ExecNoopOutput,
     BrainThrows}

InitBrain ==
    /\ InitCommon
    /\ usdEnv = 100
    /\ latestTier = None
    /\ config \in {[DefaultConfig EXCEPT !.strictActionAllowlist = s,
                                         !.maxBrainFailuresBeforeStop = b] :
                    s \in BOOLEAN, b \in {2, 5}}
    /\ files = <<>>

NextBrain ==
    \/ /\ tickCount < MaxBrainTicks
       /\ RunOnce(FALSE)
    \/ SyncDone("api")
    \/ \E out \in BrainOutputs : BrainReturn("api", out)
    \/ ActStep("api")
    \/ Finish("api")

SpecBrain == InitBrain /\ [][NextBrain]_vars

----------------------------------------------------------------------------
(* SpecTurns: run() called with and without dryRun, over brain outputs that *)
(* are valid, malformed, or missing because the brain threw.               *)

MaxTurnTicks == 3

InitTurns ==
    /\ InitCommon
    /\ usdEnv = 100
    /\ latestTier = None
    /\ config = [DefaultConfig EXCEPT !.maxBrainFailuresBeforeStop = 2]
    /\ files = <<>>

NextTurns ==
    \/ /\ tickCount < MaxTurnTicks
       /\ \E dryRun \in BOOLEAN : RunOnce(dryRun)
    \/ SyncDone("api")
    \/ \E out \in DaemonOutputs : BrainReturn("api", out)
    \/ ActStep("api")
    \/ Finish("api")

SpecTurns == InitTurns /\ [][NextTurns]_vars

----------------------------------------------------------------------------
(* SpecValidate: one tick over every brain output built from three         *)
(* summaries, up to three actions of an allowed, a disallowed and a sleep  *)
(* type, both integrity marks and sleep requests below, within and above   *)
(* the limits, under each setting of the action limit and the allowlist    *)
(* policy.                                                                 *)

MaxValidateTicks == 1

MaxValidateActions == 3

SleepAction(ms) == Action("sleep", "", "", "", ms, NoPath)

ValidateActions ==
    {Noop(""), Action("exec", "", "rm", "", 0, NoPath), SleepAction(400000)}

ValidateOutputs ==
    {[throws |-> FALSE, summary |-> s, isArray |-> arr, nextActions |-> acts,
      integrity |-> i, hasSleep |-> sl[1], sleepMs |-> sl[2],
      facts |-> <<>>, episodes |-> <<>>] :
        s \in {"go", " ", " go "}, arr \in BOOLEAN,
        acts \in UNION {[1..k -> ValidateActions] : k \in 0..MaxValidateActions},
        i \in {"ok", "malformed"},
        sl \in {<<FALSE, 0>>, <<TRUE, -5>>, <<TRUE, 1000>>, <<TRUE, 400000>>}}

InitValidate ==
    /\ InitCommon
    /\ usdEnv = 100
    /\ latestTier = None
    /\ config \in {[DefaultConfig EXCEPT !.strictActionAllowlist = s,
                                         !.maxActionsPerTurn = k] :
                    s \in BOOLEAN, k \in {1, 2}}
    /\ files = <<>>

NextValidate ==
    \/ /\ tickCount < MaxValidateTicks
       /\ RunOnce(FALSE)
    \/ SyncDone("api")
    \/ \E out \in ValidateOutputs : BrainReturn("api", out)
    \/ ActStep("api")
    \/ Finish("api")

SpecValidate == InitValidate /\ [][NextValidate]_vars

----------------------------------------------------------------------------
(* SpecSchedule: the daemon loop and direct run() calls on one runtime,    *)
(* over brain outputs that ask for a sleep through a sleep action, through *)
(* the output's sleepMs, through both or not at all, with the host         *)
(* stopping and restarting the loop.                                       *)

MaxScheduleTicks == 3

TwoFactsOutput ==
    Output("go", <<RecordFact("k1", "v"), RecordFact("k2", "v")>>, "ok",
           <<>>, <<>>)

\* An output whose only action is a sleep of ms.
SleepActionOutput(ms) == Output("go", <<SleepAction(ms)>>, "ok", <<>>, <<>>)

\* An output with the top-level sleepMs given.
WithSleepMs(out, ms) == [out EXCEPT !.hasSleep = TRUE, !.sleepMs = ms]

ScheduleOutputs ==
    {TwoFactsOutput, SleepActionOutput(1000), SleepActionOutput(400000),
     WithSleepMs(NoopOutput, 0), WithSleepMs(NoopOutput, 2000),
     WithSleepMs(SleepActionOutput(1000), 2000)}

InitSchedule ==
    /\ InitCommon
    /\ usdEnv = 100
    /\ latestTier = None
    /\ config = DefaultConfig
    /\ files = <<>>

NextSchedule ==
    \/ /\ tickCount < MaxScheduleTicks
       /\ RunDaemon
    \/ /\ tickCount < MaxScheduleTicks \/ ~daemonRunning
       /\ DaemonWake
    \/ /\ tickCount < MaxScheduleTicks
       /\ RunOnce(FALSE)
    \/ SleepElapses
    \/ StopDaemon
    \/ \E c \in Callers :
          \/ SyncDone(c)
          \/ \E out \in ScheduleOutputs : BrainReturn(c, out)
          \/ ActStep(c)
          \/ Finish(c)

SpecSchedule == InitSchedule /\ [][NextSchedule]_vars

----------------------------------------------------------------------------
(* SpecAlerts: ticks that evaluate the alert rules over critical incidents *)
(* left by earlier ticks and over a queue of inbound messages, with the    *)
(* clock moving in steps of half the de-duplication period.                *)

MaxAlertTicks == 3

MaxAlertMessages == 2

MaxAlertClock == 3

HalfDedup == ALERT_DEDUP_MS \div 2

\* One queued message reaches the queue-depth threshold.
AlertConfig == [DefaultConfig EXCEPT !.alerting.queueDepthThreshold = 1]

\* The incidents table after k runs of the daemon loop in the dead tier:
\* each run ended at its first tick and left one critical incident.
DeadRuns(k) ==
    [i \in 1..k |->
        [code |-> "DAEMON_FAILURE", severity |-> "critical",
         category |-> "daemon", s |-> "dead", n1 |-> 1, n2 |-> 0,
         at |-> StartTime]]

\* A runtime started over the store of such runs, now with funds, or over
\* an empty store.
InitAlerts ==
    /\ InitStore
    /\ usdEnv = 100
    /\ config = AlertConfig
    /\ files = <<>>
    /\ \E k \in {0, 1, 10} :
          /\ incidents = DeadRuns(k)
          /\ latestTier = IF k = 0 THEN None ELSE "dead"

NextAlerts ==
    \/ /\ tickCount < MaxAlertTicks
       /\ RunOnce(FALSE)
    \/ SyncDone("api")
    \/ BrainReturn("api", NoopOutput)
    \/ ActStep("api")
    \/ Finish("api")
    \/ Deliver(MaxAlertMessages)
    \/ AdvanceTime(HalfDedup, StartTime + MaxAlertClock * HalfDedup)

SpecAlerts == InitAlerts /\ [][NextAlerts]_vars

----------------------------------------------------------------------------
(* SpecWallet: unlock, lock and rotate calls on the wallet, the session    *)
(* TTL running out, and ticks whose actions need the wallet session.       *)

MaxWalletUnlocks == 2

MaxWalletTicks == 1

MaxWalletClock == 3

\* Half the session TTL, in milliseconds.
HalfTtl == config.walletSessionTtlSec * 500

WalletOutputs ==
    {Output("go", <<SendAction>>, "ok", <<>>, <<>>),
     Output("go", <<ReplicateAction(0)>>, "ok", <<>>, <<>>),
     Output("go", <<ReplicateAction(1)>>, "ok", <<>>, <<>>)}

InitWallet ==
    /\ InitCommon
    /\ usdEnv = 100
    /\ latestTier = None
    /\ config \in {GateConfig, [GateConfig EXCEPT !.chain = SepoliaChain]}
    /\ files = (<<"home", "x">> :> "A")

NextWallet ==
    \/ UnlockWallet(config.walletSessionTtlSec, MaxWalletUnlocks)
    \/ LockWallet
    \/ RotateWallet
    \/ GetAccountLocked
    \/ AdvanceTime(HalfTtl, StartTime + MaxWalletClock * HalfTtl)
    \/ /\ tickCount < MaxWalletTicks
       /\ RunOnce(FALSE)
    \/ SyncDone("api")
    \/ \E out \in WalletOutputs : BrainReturn("api", out)
    \/ ActStep("api")
    \/ \E providerOk \in BOOLEAN : ActReplicateDone("api", providerOk)
    \/ Finish("api")

SpecWallet == InitWallet /\ [][NextWallet]_vars

----------------------------------------------------------------------------
(* SpecClient: ticks whose brain is the OpenAI client.  The configuration  *)
(* fixes whether the API key is set, the retry budget, and what the        *)
(* endpoint answers to each successive request of a call.                  *)

MaxClientTicks == 2

\* The longest run of requests one call can make under the retry budgets
\* drawn below, and one more.
ScriptLen == 3

StatusResponse(status) ==
    [kind |-> "status", status |-> status, text |-> "", raw |-> NoopOutput]

ExceptionResponse ==
    [kind |-> "exception", status |-> 0, text |-> "", raw |-> NoopOutput]

OkResponse(text, raw) ==
    [kind |-> "ok", status |-> 200, text |-> text, raw |-> raw]

ExecAction == Action("exec", "", "rm", "", 0, NoPath)

\* Parsed model outputs: well formed; without a summary; with no action of
\* an allowed type; with one allowed action after a disallowed one.
RawOutputs ==
    {NoopOutput,
     Output(" ", <<Noop("")>>, "ok", <<>>, <<>>),
     Output("go", <<ExecAction>>, "ok", <<>>, <<>>),
     Output("go", <<ExecAction, Noop("")>>, "ok", <<>>, <<>>)}

Responses ==
    {StatusResponse(500), StatusResponse(400), ExceptionResponse,
     OkResponse("empty", NoopOutput), OkResponse("invalid", NoopOutput)}
    \cup {OkResponse("json", raw) : raw \in RawOutputs}

BrainSettings ==
    [hasApiKey : BOOLEAN, maxRetries : {0, 1},
     responses : [1..ScriptLen -> Responses]]

InitClient ==
    /\ InitCommon
    /\ usdEnv = 100
    /\ latestTier = None
    /\ config \in {[DefaultConfig EXCEPT !.brain = b] : b \in BrainSettings}
    /\ files = <<>>

NextClient ==
    \/ /\ tickCount < MaxClientTicks
       /\ RunOnce(FALSE)
    \/ SyncDone("api")
    \/ BrainReturn("api", GenerateTurn(config.brain).out)
    \/ ActStep("api")
    \/ Finish("api")

SpecClient == InitClient /\ [][NextClient]_vars

----------------------------------------------------------------------------
(* SpecChain: ticks whose send_message and replicate actions name a chain  *)
(* of their own, with the wallet unlocked or not.                          *)

MaxChainTicks == 1

MaxChainUnlocks == 1

\* config.chainProfiles.find for a chain key: Base, Ethereum Sepolia, or no
\* profile.
ChainProfile(key) ==
    IF key = "eip155:8453" THEN DefaultConfig.chain
    ELSE IF key = "eip155:11155111" THEN SepoliaChain
    ELSE [known |-> FALSE, messaging |-> FALSE, payments |-> FALSE]

ChainKeys == {"", "eip155:8453", "eip155:11155111", "eip155:999"}

ChainOutputs ==
    {Output("go", <<OnChain(a, k)>>, "ok", <<>>, <<>>) :
        a \in {SendAction, ReplicateAction(0), ReplicateAction(1)},
        k \in ChainKeys}

InitChain ==
    /\ InitCommon
    /\ usdEnv = 100
    /\ latestTier = None
    /\ config \in {GateConfig, [GateConfig EXCEPT !.chain = SepoliaChain]}
    /\ files = (<<"home", "x">> :> "A")

NextChain ==
    \/ UnlockWallet(config.walletSessionTtlSec, MaxChainUnlocks)
    \/ /\ tickCount < MaxChainTicks
       /\ RunOnce(FALSE)
    \/ SyncDone("api")
    \/ \E out \in ChainOutputs : BrainReturn("api", out)
    \/ ActStep("api")
    \/ \E providerOk \in BOOLEAN : ActReplicateDone("api", providerOk)
    \/ Finish("api")

SpecChain == InitChain /\ [][NextChain]_vars

----------------------------------------------------------------------------
(* SpecTools: tool invocations by brain actions and through the runtime    *)
(* API, over registries with internal, external, disabled and adapterless  *)
(* sources, with messages sent and delivered in between.                   *)

MaxToolTicks == 1

MaxToolMessages == 2

MaxToolUnlocks == 1

\* External sources: an API source, a disabled one, one of a type without
\* adapter, and one naming an adapter that is not registered.
ExternalSources ==
    [id \in {"ext.api", "ext.off", "ext.mcp", "ext.custom"} |->
        IF id = "ext.api" THEN ToolSource("api", TRUE, "", TRUE)
        ELSE IF id = "ext.off" THEN ToolSource("api", FALSE, "", TRUE)
        ELSE IF id = "ext.mcp" THEN ToolSource("mcp", TRUE, "", FALSE)
        ELSE ToolSource("api", TRUE, "custom", TRUE)]

\* The same, with a configured entry that disables the internal source.
InternalDisabledSources ==
    [id \in DOMAIN ExternalSources \cup {"internal.runtime"} |->
        IF id = "internal.runtime"
          THEN ToolSource("internal", FALSE, "internal", FALSE)
          ELSE ExternalSources[id]]

SourceIds == DOMAIN ExternalSources \cup {"internal.runtime", "ext.unknown"}

ToolNames == {"queue.depth", "messages.threads", "no.such.tool"}

InvokeToolAction(sourceId, toolName) ==
    Action("invoke_tool", "", sourceId, toolName, 0, NoPath)

ToolOutputs ==
    {Output("go", <<InvokeToolAction(s, t)>>, "ok", <<>>, <<>>) :
        s \in SourceIds, t \in ToolNames}
    \cup {Output("go", <<Action("send_message", "", "Peer", "hi", 0, NoPath),
                        InvokeToolAction("internal.runtime", t)>>,
                 "ok", <<>>, <<>>) : t \in ToolNames}

\* invokeTool(request) called through the runtime API.
InvokeToolCall(sourceId, toolName) ==
    /\ InvokeToolEffect(sourceId, toolName)
    /\ conversations' # conversations
    /\ UNCHANGED <<envVars, brainLog, now, ctlVars, walletVars, selfModVars,
                   replVars, tickVars, memVars, rowVars, incidents,
                   daemonVars, lastAttempt>>

InitTools ==
    /\ InitCommon
    /\ usdEnv = 100
    /\ latestTier = None
    /\ config \in {[DefaultConfig EXCEPT
                      !.toolSources = s,
                      !.tooling = [allowExternalSources |-> a,
                                   endpointOk |-> e]] :
                    s \in {ExternalSources, InternalDisabledSources},
                    a \in BOOLEAN, e \in BOOLEAN}
    /\ files = <<>>

NextTools ==
    \/ UnlockWallet(config.walletSessionTtlSec, MaxToolUnlocks)
    \/ Deliver(MaxToolMessages)
    \/ /\ tickCount < MaxToolTicks
       /\ RunOnce(FALSE)
    \/ SyncDone("api")
    \/ \E out \in ToolOutputs : BrainReturn("api", out)
    \/ ActStep("api")
    \/ Finish("api")
    \/ \E s \in SourceIds, t \in ToolNames : InvokeToolCall(s, t)

SpecTools == InitTools /\ [][NextTools]_vars

----------------------------------------------------------------------------
(* SpecMigrate: the runtime is started on a store whose schema_version     *)
(* table was left by an older, the same or a newer version of the code,    *)
(* and then runs ticks.                                                    *)

MaxStoredVersion == 4

MaxMigrateTicks == 2

\* runMigrations(): whether it raised, and MAX(version) afterwards.  Rows
\* are inserted for the versions above the stored one, up to the version of
\* the code; a store at or above that version is left as it is.
RunMigrations(currentVersion) ==
    [raised |-> FALSE,
     version |-> IF currentVersion >= SCHEMA_VERSION THEN currentVersion
                 ELSE SCHEMA_VERSION]

\* initialize(): the migrations, then the wallet, the kv defaults and the
\* agent state.
Initialize ==
    /\ startup = "pending"
    /\ schemaVersion' = RunMigrations(schemaVersion).version
    /\ startup' = IF RunMigrations(schemaVersion).raised THEN "refused"
                  ELSE "started"
    /\ agentState' = IF RunMigrations(schemaVersion).raised THEN agentState
                     ELSE "sleeping"
    /\ UNCHANGED <<config, usdEnv, legacyVars, now, emergency, latestTier, walletVars,
                   msgVars, selfModVars, replVars, tickVars, memVars, rowVars,
                   incidents, daemonVars, brainLog, lastAttempt>>

InitMigrate ==
    /\ InitTables
    /\ InitLegacy
    /\ incidents = <<>>
    /\ schemaVersion \in 0..MaxStoredVersion
    /\ startup = "pending"
    /\ usdEnv = 100
    /\ latestTier = None
    /\ config = DefaultConfig
    /\ files = <<>>

NextMigrate ==
    \/ Initialize
    \/ /\ startup = "started"
       /\ tickCount < MaxMigrateTicks
       /\ RunOnce(FALSE)
    \/ SyncDone("api")
    \/ \E out \in BrainOutputs : BrainReturn("api", out)
    \/ ActStep("api")
    \/ Finish("api")

SpecMigrate == InitMigrate /\ [][NextMigrate]_vars

----------------------------------------------------------------------------
(* SpecSurvival: the legacy AgentRuntime (src/runtime/runtime.ts) runs its *)
(* periodic survival check against a wallet whose balance the chain        *)
(* reports.                                                                *)

MaxMinJobPayment == 3

MaxSurvivalChecks == 8

\* Below this balance, in wei, the survival check raises the minimum.
LOW_BALANCE == 100000

\* Below this balance, in wei, the survival check warns.
CRITICAL_BALANCE == 10000

\* The balances payments.getBalance() may report.
Balances == {0, CRITICAL_BALANCE, LOW_BALANCE - 1, LOW_BALANCE, 2 * LOW_BALANCE}

\* The survival strategy of survivalCheck(): the minimum payment it sets,
\* given the balance read and the current minimum.  bigint arithmetic.
SurvivalMinPayment(bal, current) ==
    IF bal < LOW_BALANCE THEN current * 2 ELSE current

\* survivalCheck(): one firing of the interval timer.
SurvivalCheck(bal) ==
    /\ survivalChecks < MaxSurvivalChecks
    /\ balance' = bal
    /\ minPayment' = SurvivalMinPayment(bal, minPayment)
    /\ survivalChecks' = survivalChecks + 1
    /\ UNCHANGED <<config, usdEnv, schemaVersion, startup, minJobPayment, now,
                   ctlVars, walletVars, msgVars, selfModVars, replVars,
                   tickVars, memVars, rowVars, incidents, daemonVars,
                   brainLog, lastAttempt>>

\* new AgentRuntime(config): PaymentManager(wallet, config.minJobPayment
\* || BigInt(0)).
InitSurvival ==
    /\ InitTables
    /\ incidents = <<>>
    /\ schemaVersion = SCHEMA_VERSION
    /\ startup = "started"
    /\ usdEnv = 100
    /\ latestTier = None
    /\ config = DefaultConfig
    /\ files = <<>>
    /\ minJobPayment \in 0..MaxMinJobPayment
    /\ minPayment = minJobPayment
    /\ balance \in Balances
    /\ survivalChecks = 0

NextSurvival == \E bal \in Balances : SurvivalCheck(bal)

SpecSurvival == InitSurvival /\ [][NextSurvival]_vars

----------------------------------------------------------------------------
(* SpecClaimed: messages arrive while ticks run whose brain answers or     *)
(* throws, under a failure threshold of one or two.                        *)

MaxClaimedTicks == 3

MaxClaimedMessages == 2

MaxClaimedClock == 1

InitClaimed ==
    /\ InitCommon
    /\ usdEnv = 100
    /\ latestTier = None
    /\ config \in {[DefaultConfig EXCEPT !.maxBrainFailuresBeforeStop = b] :
                    b \in {1, 2}}
    /\ files = <<>>

NextClaimed ==
    \/ Deliver(MaxClaimedMessages)
    \/ /\ tickCount < MaxClaimedTicks
       /\ RunOnce(FALSE)
    \/ SyncDone("api")
    \/ \E out \in {NoopOutput, BrainThrows} : BrainReturn("api", out)
    \/ ActStep("api")
    \/ Finish("api")
    \/ AdvanceTime(1, StartTime + MaxClaimedClock)

SpecClaimed == InitClaimed /\ [][NextClaimed]_vars

----------------------------------------------------------------------------
(* SpecInterrupted: self-modifications and rollbacks over a store whose    *)
(* statements may throw, one failed call at a time between the calls that  *)
(* succeed.                                                                *)

MaxInterruptedWrites == 2

MaxInterruptedClock == 1

\* The store statements of selfModify that may throw.
StoreFailures == {StoreSteps[i] : i \in DOMAIN StoreSteps}

InitInterrupted ==
    /\ InitCommon
    /\ usdEnv = 100
    /\ latestTier = None
    /\ config = DefaultConfig
    /\ files = (<<"home", "a", "x">> :> "A")

NextInterrupted ==
    \/ /\ Len(mutations) < MaxInterruptedWrites
       /\ \E raw \in RollbackTargets, c \in {"A", "B"} : SelfModify(raw, c)
    \/ /\ Len(mutations) < MaxInterruptedWrites
       /\ lastAttempt.outcome # "storage"
       /\ \E raw \in RollbackTargets, c \in {"A", "B"}, failAt \in StoreFailures :
             SelfModifyInterrupted(raw, c, failAt)
    \/ \E raw \in RollbackTargets : RollbackSelfMod(raw)
    \/ AdvanceTime(1, StartTime + MaxInterruptedClock)

SpecInterrupted == InitInterrupted /\ [][NextInterrupted]_vars

----------------------------------------------------------------------------
(* Claims on the action loop *)

\* The log entries of every action executed so far by run(): those of the
\* written Turn rows, then those of the tick in progress.
RECURSIVE TurnLogs(_)
TurnLogs(k) == IF k = 0 THEN <<>> ELSE TurnLogs(k - 1) \o turns[k].actions

ExecutedLog == TurnLogs(Len(turns)) \o ticks["api"].log

FailedEntries(log) == SelectSeq(log, LAMBDA e : ~e.ok)

ActionIncidents == SelectSeq(incidents, LAMBDA i : i.category = "action")

\* The actions run() had to execute in the tick of Turn row r.
ExecutableOf(r) ==
    LET e == CHOOSE k \in DOMAIN brainLog : brainLog[k].n = r.n
    IN IF brainLog[e].malformed THEN <<Noop("malformed_output")>>
       ELSE brainLog[e].validated.nextActions

\* C19: a failing action does not abort its tick.  Each failure leaves one
\* warning incident of category action and one log entry, every action of
\* the tick is executed in the original order, and the Turn and telemetry
\* rows carry the number of failed actions.
C19_FailureDoesNotAbort ==
    /\ Len(ActionIncidents) = Len(FailedEntries(ExecutedLog))
    /\ \A i \in DOMAIN ActionIncidents :
          /\ ActionIncidents[i].severity = "warning"
          /\ ActionIncidents[i].s = FailedEntries(ExecutedLog)[i].detail
    /\ \A k \in DOMAIN turns :
          ~turns[k].dryRun =>
            /\ Len(turns[k].actions) = Len(ExecutableOf(turns[k]))
            /\ \A i \in DOMAIN turns[k].actions :
                  turns[k].actions[i].type = ExecutableOf(turns[k])[i].type
            /\ turns[k].actionFailureCount
                  = Len(FailedEntries(turns[k].actions))
            /\ \E j \in DOMAIN telemetry :
                  /\ telemetry[j].turn = turns[k].n
                  /\ telemetry[j].actionFailures
                        = Len(FailedEntries(turns[k].actions))
                  /\ telemetry[j].actionsTotal = Len(turns[k].actions)

\* The first action of a tick failed and the second was executed.
C19_Witness ==
    /\ Len(turns) = 1
    /\ Len(turns[1].actions) = 2
    /\ ~turns[1].actions[1].ok
    /\ turns[1].actions[2].ok
    /\ turns[1].actionFailureCount = 1
    /\ Len(ActionIncidents) = 1

\* Both actions of a tick failed.
C19_WitnessAllFailed ==
    /\ Len(turns) = 1
    /\ Len(turns[1].actions) = 2
    /\ turns[1].actionFailureCount = 2
    /\ Len(ActionIncidents) = 2

----------------------------------------------------------------------------
(* Claims on alerts *)

\* The (severity, message) pair of an alert row.
AlertKey(a) == <<a.severity, a.kind, a.n1, a.n2>>

\* The critical incidents that are not themselves mirrors of an alert.
CriticalNotAlert ==
    Cardinality({i \in DOMAIN incidents :
                    /\ incidents[i].severity = "critical"
                    /\ incidents[i].category # "alert"})

\* C21: an alert with a given (severity, message) pair is written at most
\* once per 60 seconds.  With criticalIncidentThreshold = 1 and 10 critical
\* incidents inside the window the tick writes exactly one alert row, and
\* later ticks within 60 s carrying the same message add none.
C21_AlertOncePerMinute ==
    /\ \A i, j \in DOMAIN alerts :
          (i < j /\ AlertKey(alerts[i]) = AlertKey(alerts[j]))
             => alerts[j].at - alerts[i].at >= ALERT_DEDUP_MS
    /\ (Len(turns) = 1 /\ turns[1].queueDepth = 0 /\ CriticalNotAlert = 10)
          => /\ Len(alerts) = 1
             /\ AlertKey(alerts[1])
                   = <<"critical", "critical_incidents", 10, 1>>

\* The first tick met 10 critical incidents and wrote one alert; a second
\* tick 30 s later met the same queue depth as the first and wrote no
\* second queue-depth alert.
C21_Witness ==
    /\ Len(turns) = 2
    /\ CriticalNotAlert = 10
    /\ turns[1].queueDepth = 1
    /\ turns[2].queueDepth = 1
    /\ turns[2].at - turns[1].at = HalfDedup
    /\ Cardinality({i \in DOMAIN alerts : alerts[i].kind = "queue_depth"}) = 1

\* The same pair is written again once 60 s have passed.
C21_WitnessAgain ==
    \E i, j \in DOMAIN alerts :
        /\ i < j
        /\ AlertKey(alerts[i]) = AlertKey(alerts[j])
        /\ alerts[j].at - alerts[i].at = ALERT_DEDUP_MS

\* Within 60 s of the alert for 10 critical incidents a second tick writes
\* an alert for 11: the first alert's own incident is critical.
C21_WitnessCountMoves ==
    /\ Len(turns) = 2
    /\ turns[2].at = turns[1].at
    /\ \E i, j \in DOMAIN alerts :
          /\ AlertKey(alerts[i]) = <<"critical", "critical_incidents", 10, 1>>
          /\ AlertKey(alerts[j]) = <<"critical", "critical_incidents", 11, 1>>

DeadAlerts == {i \in DOMAIN alerts : alerts[i].kind = "survival_dead"}

\* C22: whenever a tick evaluates the survival tier as dead, a critical
\* alert is raised for it, an alert row mirrored by an ALERT_TRIGGERED
\* incident, unless the 60-second de-duplication suppresses it.
C22_DeadTierAlerts ==
    lastDaemon.result = "dead"
       => /\ DeadAlerts # {}
          /\ \E i \in DOMAIN incidents :
                /\ incidents[i].code = "ALERT_TRIGGERED"
                /\ incidents[i].s = "survival_dead"

\* No tick ever writes the alert of the dead tier.
C22_NoDeadAlert == DeadAlerts = {}

\* A tick of the loop met the dead tier: the loop stopped with a critical
\* daemon incident and no alert row.
C22_WitnessDeadNoAlert ==
    /\ lastDaemon.result = "dead"
    /\ latestTier = "dead"
    /\ alerts = <<>>
    /\ \E i \in DOMAIN incidents :
          /\ incidents[i].code = "DAEMON_FAILURE"
          /\ incidents[i].severity = "critical"


ThresholdAlerts == {i \in DOMAIN alerts : alerts[i].kind = "critical_incidents"}

\* The incident row that mirrors a critical-incident-threshold alert.
MirrorOf(i) ==
    CHOOSE p \in DOMAIN incidents :
        /\ incidents[p].code = "ALERT_TRIGGERED"
        /\ incidents[p].s = "critical_incidents"
        /\ incidents[p].n1 = alerts[i].n1
        /\ incidents[p].at = alerts[i].at

\* A critical incident other than the mirror of a threshold alert was
\* recorded between two rows of the incidents table.
OtherCriticalBetween(p, q) ==
    \E r \in (p + 1)..(q - 1) :
        /\ incidents[r].severity = "critical"
        /\ ~(incidents[r].code = "ALERT_TRIGGERED"
             /\ incidents[r].s = "critical_incidents")

\* C35: an alert's own mirrored ALERT_TRIGGERED incident does not cause
\* further alerts: if, after a critical-incident-threshold alert has fired,
\* no other critical incident is recorded, then no further
\* critical-incident-threshold alert is written by the following ticks.
C35_AlertNotSelfFed ==
    \A i, j \in ThresholdAlerts :
        i < j => OtherCriticalBetween(MirrorOf(i), MirrorOf(j))

\* What evaluateAndRouteAlerts does: the mirror of every threshold alert is
\* itself counted, so each later threshold alert carries a larger count,
\* hence another message and another de-duplication marker.
C35_CountGrowsWithAlerts ==
    \A i, j \in ThresholdAlerts :
        i < j => alerts[j].n1 > alerts[i].n1

\* One critical incident was in the store; the first tick alerted for 1/1
\* and the second tick, with nothing else recorded, alerted for 2/1.
C35_WitnessSelfFed ==
    /\ Len(turns) = 2
    /\ CriticalNotAlert = 1
    /\ Len(incidents) = 3
    /\ \E i, j \in ThresholdAlerts :
          /\ alerts[i].n1 = 1
          /\ alerts[j].n1 = 2
          /\ alerts[j].at = alerts[i].at
----------------------------------------------------------------------------
(* Claims about malformed brain output *)

\* The callers whose tick n is in progress.
InProgress(n) == {c \in Callers : ticks[c].pc # "idle" /\ ticks[c].n = n}

\* The actions tick n has executed: its actionLog while it runs, the actions
\* of its Turn afterwards, nothing when it ended without one.
ExecutedBy(n) ==
    IF InProgress(n) # {}
      THEN ticks[CHOOSE c \in InProgress(n) : TRUE].log
    ELSE IF \E i \in DOMAIN turns : turns[i].n = n
      THEN turns[CHOOSE i \in DOMAIN turns : turns[i].n = n].actions
    ELSE <<>>

OneMalformedNoop == <<LogEntry(TRUE, "noop", "malformed_output", 0)>>

\* The fact keys and the episode summaries an output proposes, as actions
\* and as memoryWrites.
ProposedFactKeys(out) ==
    {out.facts[i].key : i \in DOMAIN out.facts}
      \cup {out.nextActions[i].a :
              i \in {j \in DOMAIN out.nextActions :
                        out.nextActions[j].type = "record_fact"}}

ProposedEpisodes(out) ==
    {out.episodes[i] : i \in DOMAIN out.episodes}
      \cup {out.nextActions[i].a :
              i \in {j \in DOMAIN out.nextActions :
                        out.nextActions[j].type = "record_episode"}}

\* None of the output's proposals has reached the memory tables.
NothingApplied(out) ==
    /\ ProposedFactKeys(out) \cap DOMAIN facts = {}
    /\ \A i \in DOMAIN episodes :
          episodes[i].summary \notin ProposedEpisodes(out)

\* C6 as stated: a tick whose output validation marked malformed executes
\* exactly one noop and applies none of the output's actions or
\* memoryWrites.
C6_MalformedRunsOneNoop ==
    \A i \in DOMAIN brainLog :
        brainLog[i].malformed =>
            /\ NothingApplied(brainLog[i].out)
            /\ InProgress(brainLog[i].n) = {}
                  => ExecutedBy(brainLog[i].n) = OneMalformedNoop

\* C6, amended: a tick whose output validation marked malformed applies none
\* of the output's actions or memoryWrites; it executes exactly one noop
\* when the brain-failure streak stays below maxBrainFailuresBeforeStop, and
\* no action at all when the streak reaches it.
C6_MalformedBelowThreshold ==
    \A i \in DOMAIN brainLog :
        brainLog[i].malformed =>
            /\ NothingApplied(brainLog[i].out)
            /\ \A c \in InProgress(brainLog[i].n) :
                  ticks[c].actions = <<Noop("malformed_output")>>
            /\ InProgress(brainLog[i].n) = {}
                  => ExecutedBy(brainLog[i].n) =
                        IF brainLog[i].threshold THEN <<>>
                        ELSE OneMalformedNoop

\* A finished tick below the threshold whose malformed output proposed a
\* fact and an episode both ways, after a tick whose valid output was
\* applied.
C6_Witness ==
    /\ Len(brainLog) = 2
    /\ brainLog[1].out = ValidOutput
    /\ brainLog[2].out = ProviderMalformedOutput
    /\ brainLog[2].malformed
    /\ ~brainLog[2].threshold
    /\ Len(turns) = 2
    /\ turns[2].actions = OneMalformedNoop
    /\ DOMAIN facts = {"k1", "f1"}

\* A malformed tick that ended at the threshold.
C6_WitnessThreshold ==
    /\ Len(brainLog) = 2
    /\ brainLog[2].malformed
    /\ brainLog[2].threshold
    /\ Len(turns) = 1
    /\ ticks["api"].pc = "idle"

----------------------------------------------------------------------------
(* Claims on the chain named by an action *)

\* The profile of the chain the action selects: the one its params name,
\* the configured default when they name none.
SelectedChain(action) ==
    IF action.chain = "" THEN config.chain ELSE ChainProfile(action.chain)

\* The capability the action needs of its chain, "none" when it only needs
\* the chain to be known.
NeededCapability(action) ==
    IF action.type = "send_message" THEN "messaging"
    ELSE IF action.type = "replicate" /\ action.n > 0 THEN "payments"
    ELSE "none"

\* The chain `chain` does not admit the action.
ChainBlocks(chain, action) ==
    /\ action.type \in {"send_message", "replicate"}
    /\ \/ ~chain.known
       \/ /\ NeededCapability(action) # "none"
          /\ ~chain[NeededCapability(action)]

\* C28: the chain-capability gate uses the chain selected by the action's
\* own params, the configured default only when none is given: a
\* send_message or replicate action naming an unknown chain, or a chain
\* lacking the required capability, is refused.
C28_GateUsesActionChain ==
    \A k \in DOMAIN turns : \A i \in DOMAIN turns[k].actions :
        ChainBlocks(SelectedChain(ExecutableOf(turns[k])[i]),
                    ExecutableOf(turns[k])[i])
            => ~turns[k].actions[i].ok

\* What executeBrainAction checks: the configured default chain, whatever
\* the action names.
C28_GateUsesDefaultChain ==
    \A k \in DOMAIN turns : \A i \in DOMAIN turns[k].actions :
        ChainBlocks(config.chain, ExecutableOf(turns[k])[i])
            => /\ ~turns[k].actions[i].ok
               /\ turns[k].actions[i].detail
                     \in {"chain_unsupported", "chain_capability"}

\* A send_message naming a chain without a profile has been sent.
C28_WitnessUnknownChainSent ==
    /\ Len(turns) = 1
    /\ Len(turns[1].actions) = 1
    /\ turns[1].actions[1].ok
    /\ ExecutableOf(turns[1])[1].type = "send_message"
    /\ ExecutableOf(turns[1])[1].chain = "eip155:999"
    /\ Len(transportQueue) = 1

\* A funded replicate naming Base, which supports payments, has been
\* refused for the default chain's lack of them.
C28_WitnessRefusedForDefault ==
    /\ Len(turns) = 1
    /\ Len(turns[1].actions) = 1
    /\ ~turns[1].actions[1].ok
    /\ turns[1].actions[1].detail = "chain_capability"
    /\ ExecutableOf(turns[1])[1].chain = "eip155:8453"

----------------------------------------------------------------------------
(* Claims on claimed messages and Turn rows *)

\* Tick n has persisted a Turn row.
HasTurn(n) == \E i \in DOMAIN turns : turns[i].n = n

\* Tick n ended at the brain-failure threshold.
EndedAtThreshold(n) ==
    \E i \in DOMAIN brainLog : brainLog[i].n = n /\ brainLog[i].threshold

\* The stored messages marked processed by a tick that has ended without a
\* Turn row.
ProcessedWithoutTurn ==
    {m \in DOMAIN messages :
        /\ messages[m].processedAt # -1
        /\ \A n \in inboxOf[m] : InProgress(n) = {} /\ ~HasTurn(n)}

\* C38: every message whose processedAt is set belongs to the inbox of a
\* tick that persisted a Turn row: a tick that aborts after claiming its
\* inbox (brain-failure threshold reached, or a storage error) does not
\* leave the claimed messages marked processed with no Turn recording them.
\* (A tick still in progress has not reached its Turn yet.)
C38_ProcessedHasTurn == ProcessedWithoutTurn = {}

\* What holds: a processed message without a Turn was claimed by a tick
\* that ended at the brain-failure threshold.
C38_OnlyThresholdLosesInbox ==
    \A m \in ProcessedWithoutTurn :
        \E n \in inboxOf[m] : EndedAtThreshold(n)

\* A tick claimed a message and ended at the threshold; a later tick ran
\* with an empty inbox and wrote its Turn, and the message is still marked
\* processed with no Turn holding it.
C38_WitnessOrphaned ==
    /\ ProcessedWithoutTurn # {}
    /\ Len(turns) >= 1
    /\ turns[Len(turns)].inbox = {}
    /\ \A m \in ProcessedWithoutTurn :
          \A n \in inboxOf[m] : n < turns[Len(turns)].n
----------------------------------------------------------------------------
(* Claims on a tick without an API key *)

\* The completed first tick of an agent whose brain API key is unset.
MissingKeyTick ==
    /\ ~config.brain.hasApiKey
    /\ config.strictActionAllowlist
    /\ Len(turns) >= 1

MalformedIncidents ==
    SelectSeq(incidents, LAMBDA i : i.code = "BRAIN_OUTPUT_MALFORMED")

\* C25: one tick with the brain API key unset and an empty inbox, under the
\* strict allowlist, produces exactly one Turn whose actionCount is 0 and
\* exactly one BRAIN_OUTPUT_MALFORMED incident of severity error, leaves the
\* brain failure streak at 1, and raises no alert.
C25_MissingKeyTick ==
    (MissingKeyTick /\ tickCount = 1) =>
        /\ Len(turns) = 1
        /\ turns[1].actionCount = 0
        /\ Len(MalformedIncidents) = 1
        /\ MalformedIncidents[1].severity = "error"
        /\ kvStreak = 1
        /\ alerts = <<>>

\* What the tick writes: the Turn counts the fail-closed noop that run()
\* executes in place of the rejected actions.
C25_MissingKeyCountsNoop ==
    (MissingKeyTick /\ tickCount = 1) =>
        /\ Len(turns) = 1
        /\ turns[1].actionCount = 1
        /\ turns[1].actions = <<LogEntry(TRUE, "noop", "malformed_output", 0)>>
        /\ Len(MalformedIncidents) = 1
        /\ MalformedIncidents[1].severity = "error"
        /\ kvStreak = 1
        /\ alerts = <<>>

C25_WitnessMissingKey ==
    /\ MissingKeyTick
    /\ tickCount = 1
    /\ turns[1].actionCount = 1
    /\ kvStreak = 1

----------------------------------------------------------------------------
(* Claims on the brain client *)

\* The client retries after this response, given another attempt.
Retriable(r) ==
    \/ r.kind = "exception"
    \/ r.kind = "status" /\ IsRetriableStatus(r.status)

\* The number of requests the retry budget allows.
AttemptBudget == config.brain.maxRetries + 1

\* The request after which the call ends: the first one whose response is
\* not retried, the last of the budget at the latest.
LastRequest ==
    CHOOSE j \in 1..AttemptBudget :
        /\ j = AttemptBudget \/ ~Retriable(config.brain.responses[j])
        /\ \A i \in 1..(j - 1) : Retriable(config.brain.responses[i])

\* The call ends in one of the failures: no API key, a non-success status,
\* an exception or timeout, an empty response, or unparseable JSON.
ClientFailed ==
    \/ ~config.brain.hasApiKey
    \/ LET last == config.brain.responses[LastRequest] IN
          \/ last.kind \in {"status", "exception"}
          \/ last.kind = "ok" /\ last.text \in {"empty", "invalid"}

\* C29: generateTurn never raises and ends after at most maxRetries + 1
\* HTTP attempts; a missing API key, a non-success status that is not
\* retried or remains after the last attempt, an exception or timeout on the
\* last attempt, an empty response and unparseable JSON each return an
\* output with integrity malformed.
C29_ClientNeverRaises ==
    \A i \in DOMAIN brainLog :
        /\ brainLog[i].out = GenerateTurn(config.brain).out
        /\ ~brainLog[i].out.throws
        /\ brainLog[i].out # BrainFailureOutput
        /\ GenerateTurn(config.brain).attempts <= AttemptBudget
        /\ GenerateTurn(config.brain).attempts
              = IF config.brain.hasApiKey THEN LastRequest ELSE 0
        /\ ClientFailed => brainLog[i].out.integrity = "malformed"

\* A retriable status, then an exception on the second and last attempt.
C29_Witness ==
    /\ Len(brainLog) >= 1
    /\ config.brain.hasApiKey
    /\ config.brain.maxRetries = 1
    /\ config.brain.responses[1] = StatusResponse(500)
    /\ config.brain.responses[2] = ExceptionResponse
    /\ brainLog[1].out.nextActions = <<Noop("request_exception")>>
    /\ brainLog[1].out.integrity = "malformed"

\* A status that is not retried although the budget allows another attempt.
C29_WitnessNotRetried ==
    /\ Len(brainLog) >= 1
    /\ config.brain.hasApiKey
    /\ config.brain.maxRetries = 1
    /\ config.brain.responses[1] = StatusResponse(400)
    /\ brainLog[1].out.nextActions = <<Noop("request_failed")>>

\* An exception, then a well-formed answer.
C29_WitnessRecovered ==
    /\ Len(brainLog) >= 1
    /\ config.brain.hasApiKey
    /\ config.brain.maxRetries = 1
    /\ config.brain.responses[1] = ExceptionResponse
    /\ config.brain.responses[2] = OkResponse("json", NoopOutput)
    /\ brainLog[1].out.integrity = "ok"
    /\ ~brainLog[1].malformed

\* The call ended by sanitizing a parsed model output.
Sanitized ==
    /\ config.brain.hasApiKey
    /\ config.brain.responses[LastRequest].kind = "ok"
    /\ config.brain.responses[LastRequest].text = "json"

\* The parsed model output of the call.
ParsedOutput == config.brain.responses[LastRequest].raw

\* The model's output has a non-empty summary and an action of an allowed
\* type.
WellFormedRaw(raw) ==
    /\ Trim(raw.summary) # ""
    /\ raw.isArray
    /\ \E i \in DOMAIN raw.nextActions :
          raw.nextActions[i].type \in ALLOWED_ACTIONS

\* C30: the client's sanitized result carries integrity ok only if the
\* model's output had a non-empty summary and at least one action survived
\* the allowed-type filter; otherwise the result is marked malformed.
C30_SanitizedIntegrity ==
    \A i \in DOMAIN brainLog :
        Sanitized =>
            (brainLog[i].out.integrity = "ok" <=> WellFormedRaw(ParsedOutput))

\* What sanitizeOutput returns: integrity ok for every parsed output, with
\* the summary and the actions it put in place of missing ones.
C30_SanitizedAlwaysOk ==
    \A i \in DOMAIN brainLog :
        Sanitized =>
            /\ brainLog[i].out.integrity = "ok"
            /\ brainLog[i].out.summary # ""
            /\ Len(brainLog[i].out.nextActions) >= 1
            /\ ~brainLog[i].malformed

\* A model output without a summary has passed as a clean turn.
C30_WitnessNoSummary ==
    /\ Len(turns) >= 1
    /\ Sanitized
    /\ Trim(ParsedOutput.summary) = ""
    /\ brainLog[1].out.integrity = "ok"
    /\ ~brainLog[1].malformed
    /\ kvStreak = 0

\* A model output whose only action is of a disallowed type has passed as a
\* clean turn.
C30_WitnessNoAction ==
    /\ Len(turns) >= 1
    /\ Sanitized
    /\ ParsedOutput.nextActions = <<ExecAction>>
    /\ brainLog[1].out.integrity = "ok"
    /\ brainLog[1].out.nextActions = <<Noop("no_actions")>>
    /\ ~brainLog[1].malformed

----------------------------------------------------------------------------
(* Claims about the daemon loop *)

\* The critical BRAIN_REQUEST_FAILED incidents, by index.
ThresholdIncidents ==
    {i \in DOMAIN incidents :
        /\ incidents[i].code = "BRAIN_REQUEST_FAILED"
        /\ incidents[i].severity = "critical"}

\* C4: the loop stops at the tick in which the brain-failure streak reaches
\* maxBrainFailuresBeforeStop, whatever maxConsecutiveErrors is: the loop is
\* no longer running, the agent state is stopped, and the critical
\* BRAIN_REQUEST_FAILED incident of that tick reads streak/limit with the
\* streak equal to the limit.
C4_ThresholdStops ==
    lastDaemon.result = "brain_threshold" =>
        /\ ~lastDaemon.running
        /\ lastDaemon.state = "stopped"
        /\ \A i \in ThresholdIncidents :
              (\A j \in ThresholdIncidents : j <= i)
                 => incidents[i].n1 = incidents[i].n2

\* What the loop does with a tick that ended at the threshold: it counts it
\* as one more consecutive error.
C4_ThresholdCountsAsError ==
    lastDaemon.result = "brain_threshold" =>
        /\ lastDaemon.errorsAfter = lastDaemon.errorsBefore + 1
        /\ (lastDaemon.runningBefore
              /\ lastDaemon.errorsAfter < config.maxConsecutiveErrors)
             => lastDaemon.running

\* The loop still running after the fifth tick of limits 5 and 999, whose
\* incident reads 5/5, and asleep until the sixth.
C4_WitnessStillRunning ==
    /\ config.maxBrainFailuresBeforeStop = 5
    /\ config.maxConsecutiveErrors = 999
    /\ lastDaemon.result = "brain_threshold"
    /\ lastDaemon.tick = 5
    /\ lastDaemon.running
    /\ daemonRunning
    /\ agentState = "running"
    /\ \E i \in ThresholdIncidents : incidents[i].n1 = 5 /\ incidents[i].n2 = 5

\* C5, at the end of each tick of the loop: a successful tick resets
\* consecutiveErrors to 0 and a failing one increments it; a tick that fails
\* on the dead survival tier stops the loop with agent state dead; any other
\* failing tick stops it, with agent state stopped, exactly when
\* consecutiveErrors has reached maxConsecutiveErrors; a successful tick
\* never stops it.
C5_AtTickEnd ==
    lastDaemon.result # "none" =>
        /\ lastDaemon.result = "ok" =>
              /\ lastDaemon.errorsAfter = 0
              /\ lastDaemon.running = lastDaemon.runningBefore
        /\ lastDaemon.result # "ok" =>
              lastDaemon.errorsAfter = lastDaemon.errorsBefore + 1
        /\ lastDaemon.result = "dead" =>
              /\ ~lastDaemon.running
              /\ lastDaemon.state = "dead"
        /\ (lastDaemon.result \notin {"ok", "dead"}
              /\ lastDaemon.errorsAfter >= config.maxConsecutiveErrors) =>
              /\ ~lastDaemon.running
              /\ lastDaemon.state = "stopped"
        /\ (lastDaemon.result \notin {"ok", "dead"}
              /\ lastDaemon.errorsAfter < config.maxConsecutiveErrors) =>
              lastDaemon.running = lastDaemon.runningBefore

\* C5, after the stop: a loop that is asleep and no longer running starts no
\* tick.
C5_NoTickAfterStop ==
    (daemonPc = "sleep" /\ ~daemonRunning)
        => (daemonPc' # "tick" /\ tickCount' = tickCount)

C5_WitnessDead ==
    /\ lastDaemon.result = "dead"
    /\ agentState = "dead"
    /\ daemonPc = "off"

----------------------------------------------------------------------------
(* Claims on a turn proposing a disallowed action and a noop *)

\* The first tick is complete and its brain returned [exec, noop].
ExecNoopTick ==
    /\ Len(brainLog) = 1
    /\ brainLog[1].out = ExecNoopOutput
    /\ Len(turns) = 1

\* C26: when the brain returns a summary with the actions [exec, noop], the
\* validated actions are [noop], the Turn's actions are ["noop:none"], no
\* incident of category action is recorded, and a BRAIN_OUTPUT_MALFORMED
\* incident is recorded if and only if strictActionAllowlist is true.
C26_ExecNoopTurn ==
    ExecNoopTick =>
        /\ brainLog[1].validated.nextActions = <<Noop("")>>
        /\ turns[1].actions = <<LogEntry(TRUE, "noop", "none", 0)>>
        /\ \A i \in DOMAIN incidents : incidents[i].category # "action"
        /\ (\E i \in DOMAIN incidents :
                incidents[i].code = "BRAIN_OUTPUT_MALFORMED")
              <=> config.strictActionAllowlist

\* What run() writes: under the strict allowlist the turn is fail-closed and
\* the one action executed and logged is the noop that run() substitutes.
C26_ExecNoopFailClosed ==
    ExecNoopTick =>
        /\ brainLog[1].validated.nextActions = <<Noop("")>>
        /\ turns[1].actions =
              <<LogEntry(TRUE, "noop",
                         IF config.strictActionAllowlist
                           THEN "malformed_output" ELSE "none", 0)>>
        /\ \A i \in DOMAIN incidents : incidents[i].category # "action"
        /\ (\E i \in DOMAIN incidents :
                incidents[i].code = "BRAIN_OUTPUT_MALFORMED")
              <=> config.strictActionAllowlist

C26_WitnessStrict ==
    /\ ExecNoopTick
    /\ config.strictActionAllowlist
    /\ turns[1].actions = <<LogEntry(TRUE, "noop", "malformed_output", 0)>>

C26_WitnessLenient ==
    /\ ExecNoopTick
    /\ ~config.strictActionAllowlist
    /\ turns[1].actions = <<LogEntry(TRUE, "noop", "none", 0)>>

----------------------------------------------------------------------------
(* Claims about the gates of the mutating operations *)

\* C1: a mutating operation (send_message, replicate, self_modify, as a brain
\* action or through the API) attempted while the emergency stop is enabled
\* is refused and changes nothing; the state is read at the attempt.
C1_EmergencyRefuses ==
    (lastAttempt.op # "none" /\ lastAttempt.emergency)
      => /\ lastAttempt.outcome # "ok"
         /\ ~lastAttempt.effect

\* A brain action refused by the emergency stop that was enabled after its
\* tick had started.
C1_Witness ==
    /\ lastAttempt.via = "brain"
    /\ lastAttempt.emergency
    /\ lastAttempt.outcome = "emergency"
    /\ lastAttempt.wallet = "unlocked"

C1_WitnessApi ==
    /\ lastAttempt.via = "api"
    /\ lastAttempt.op = "replicate"
    /\ lastAttempt.outcome = "emergency"

\* C2: a mutating operation attempted while the latest survival snapshot has
\* tier dead is refused and changes nothing.
C2_DeadRefuses ==
    (lastAttempt.op # "none" /\ lastAttempt.tier = "dead")
      => /\ lastAttempt.outcome # "ok"
         /\ ~lastAttempt.effect

C2_Witness ==
    /\ lastAttempt.tier = "dead"
    /\ ~lastAttempt.emergency
    /\ lastAttempt.outcome = "dead"
    /\ tickCount > 0

\* C10: after lock() the wallet is not unlocked, and a send_message or
\* replicate action attempted before the next unlock fails with an incident
\* of code WALLET_LOCKED.
C10_LockedWallet ==
    /\ LockedByLock => ~IsWalletUnlocked
    /\ (/\ lastAttempt.via = "brain"
        /\ lastAttempt.op \in {"send_message", "replicate"}
        /\ lastAttempt.afterLock)
         => /\ lastAttempt.outcome # "ok"
            /\ lastAttempt.code = "WALLET_LOCKED"

\* What the code does instead: the action fails, with the code of the chain
\* gate when that gate refuses, else WALLET_LOCKED.
C10_LockedWalletFails ==
    /\ LockedByLock => ~IsWalletUnlocked
    /\ (/\ lastAttempt.via = "brain"
        /\ lastAttempt.op \in {"send_message", "replicate"}
        /\ lastAttempt.wallet = "locked")
         => /\ lastAttempt.outcome # "ok"
            /\ ~lastAttempt.effect
            /\ lastAttempt.code \in {"WALLET_LOCKED", "CHAIN_CAPABILITY_BLOCKED"}

C10_WitnessLocked ==
    /\ lastAttempt.afterLock
    /\ lastAttempt.via = "brain"
    /\ lastAttempt.code = "WALLET_LOCKED"


\* C39: the number of children in state running never exceeds maxChildren,
\* including when two replicate operations (a brain action inside a tick
\* and a call from the CLI or HTTP surface) interleave at the
\* sandbox-creation suspension point.
C39_ChildrenWithinLimit == CountRunningChildren <= config.maxChildren

\* The replicate calls suspended at provider.createSandbox.
SuspendedReplicates ==
    {k \in DOMAIN pendingReplicate : pendingReplicate[k].active}

\* What holds: the running children and the replicate calls that have
\* passed the limit check and await their sandbox together exceed the limit
\* by no more than the calls that can be suspended at once.
C39_LimitCheckedBeforeSuspension ==
    /\ CountRunningChildren
          <= config.maxChildren + Cardinality(DOMAIN pendingReplicate) - 1
    /\ [][CountRunningChildren' > CountRunningChildren
             => SuspendedReplicates # {}]_vars

\* No replicate call is suspended any more and the running children are
\* one more than maxChildren.
C39_WitnessOverLimit ==
    /\ SuspendedReplicates = {}
    /\ CountRunningChildren = config.maxChildren + 1
    /\ \A c \in Callers : ticks[c].pc = "idle"
----------------------------------------------------------------------------
(* Claims about the inbox *)

\* C3: every stored message has been in the inboxMessages of at most one
\* tick, its processed_at has been written at most once, exactly when it was
\* handed to a tick, and still holds the value written then.
C3_InboxOnce ==
    \A m \in DOMAIN messages :
        /\ Cardinality(inboxOf[m]) <= 1
        /\ Len(processedLog[m]) <= 1
        /\ (Len(processedLog[m]) = 1) <=> (inboxOf[m] # {})
        /\ messages[m].processedAt =
              IF processedLog[m] = <<>> THEN -1 ELSE processedLog[m][1]

\* A message claimed by one tick, and a later tick of the other caller that
\* has claimed its own inbox since.
C3_Witness ==
    /\ \E m \in DOMAIN messages :
          /\ messages[m].processedAt # -1
          /\ \E c \in Callers : ticks[c].pc = "brain" /\ ticks[c].n \notin inboxOf[m]
    /\ Len(turns) >= 1


\* The tick of caller c leaves syncMessagingInbox in this step.
SyncEnds(c) == ticks[c].pc = "sync" /\ ticks'[c].pc # "sync"

\* The poll of caller c returned a message whose id is already stored.
PolledStored(c) ==
    \E i \in DOMAIN ticks[c].polled : ticks[c].polled[i].id \in DOMAIN messages

\* C27: polled messages are upserted: when a poll returns a message whose id
\* is already stored (returned by an earlier poll, or sent by the agent
\* itself), the tick does not fail but goes on to the brain step, and a
\* message already processed does not become unprocessed again.
C27_PollUpserts ==
    [][\A c \in Callers :
          (SyncEnds(c) /\ PolledStored(c)) =>
              /\ ticks'[c].pc = "brain"
              /\ \A m \in DOMAIN messages :
                    messages[m].processedAt # -1
                        => messages'[m].processedAt # -1]_vars

\* What syncMessagingInbox does: the INSERT of a stored id raises, the tick
\* ends there without moving xmtp_last_poll_at, and the stored rows are as
\* they were.
C27_DuplicateEndsTick ==
    [][\A c \in Callers :
          (SyncEnds(c) /\ PolledStored(c)) =>
              /\ ticks'[c] = IdleTick
              /\ lastPollAt' = lastPollAt
              /\ turns' = turns
              /\ \A m \in DOMAIN messages : messages'[m] = messages[m]]_vars

\* A daemon tick has failed on a message that an earlier poll had stored
\* and a tick had processed.
C27_WitnessPolledTwice ==
    /\ lastDaemon.result = "storage"
    /\ \E m \in DOMAIN messages :
          ~messages[m].own /\ messages[m].processedAt # -1

\* A daemon tick has failed on the stored copy of a message the agent sent.
C27_WitnessOwnMessage ==
    /\ lastDaemon.result = "storage"
    /\ \A m \in DOMAIN messages : messages[m].own


\* The queued transport message i can no longer reach the store: it is not
\* stored, no poll in progress has returned it, and it arrived before
\* xmtp_last_poll_at, so every later poll filters it out.
LeftBehind(i) ==
    /\ transportQueue[i].id \notin DOMAIN messages
    /\ transportQueue[i].receivedAt < lastPollAt
    /\ \A c \in Callers :
          \A j \in DOMAIN ticks[c].polled :
              ticks[c].polled[j].id # transportQueue[i].id

\* C37: every message accepted by the messaging transport is eventually
\* inserted into the store and delivered to some tick, provided ticks keep
\* running: no message is skipped because more than 50 messages arrived
\* since the last poll or because it arrived between a poll and the update
\* of xmtp_last_poll_at.  Stated on the states: no accepted message is ever
\* in a position from which it cannot be inserted any more.
C37_NoMessageLeftBehind == \A i \in DOMAIN transportQueue : ~LeftBehind(i)

\* A message left behind stays left behind whatever runs afterwards.
C37_LeftBehindForGood ==
    [][\A i \in DOMAIN transportQueue : LeftBehind(i) => LeftBehind(i)']_vars

\* A message arrived while a tick was waiting for its poll; the tick then
\* moved xmtp_last_poll_at past it, and a later tick has polled, claimed an
\* empty inbox and written its Turn without it.
C37_WitnessSkipped ==
    \E i \in DOMAIN transportQueue :
        /\ LeftBehind(i)
        /\ ~transportQueue[i].own
        /\ Len(turns) >= 2
        /\ turns[Len(turns)].at > transportQueue[i].receivedAt
        /\ \A c \in Callers : ticks[c].pc = "idle"
----------------------------------------------------------------------------
(* Claims on interrupted self-modifications *)

\* This step is a selfModify call that has changed its target file.
SelfModifyChangesFile ==
    /\ files' # files
    /\ lastRollback' = NoRollback
    /\ lastSelfMod'.fileChanged

\* The rows a changed file needs for its rollback were all written by this
\* step: the mutation, its rollback point, the backup locator of that
\* mutation, and the timestamp of the rate limit.
RollbackRecorded ==
    /\ Len(mutations') = Len(mutations) + 1
    /\ Len(rollbackPoints') = Len(rollbackPoints) + 1
    /\ rollbackPoints'[Len(rollbackPoints')].mutationId
          = mutations'[Len(mutations')].id
    /\ mutations'[Len(mutations')].path = lastSelfMod'.path
    /\ mutations'[Len(mutations')].id \in DOMAIN kvBackup' \ DOMAIN kvBackup
    /\ selfModTimestamps' = RecordSelfModAttempt

\* C40: a self-modification is all-or-nothing with respect to failures:
\* whenever selfModify has changed the target file, a SelfModMutation row,
\* its RollbackPoint and the KV backup locator self_mod_backup_v1:<id> all
\* exist and a rate-limit timestamp has been recorded, so that no failure
\* between these steps leaves a changed file that cannot be rolled back.
C40_AllOrNothing == [][SelfModifyChangesFile => RollbackRecorded]_vars

\* What holds: a selfModify call that returns normally has written all of
\* them, and every rollback point references an existing mutation.
C40_CompleteWhenNoFailure ==
    /\ [][(SelfModifyChangesFile /\ lastSelfMod'.outcome = "ok")
             => RollbackRecorded]_vars
    /\ [](\A i \in DOMAIN rollbackPoints :
             \E j \in DOMAIN mutations :
                 mutations[j].id = rollbackPoints[i].mutationId)

\* A selfModify call changed an existing file and ended in a store error
\* before its rollback point was written; the rollback of that path then
\* found no rollback point and the file keeps the new content.
C40_WitnessNoRollback ==
    /\ lastSelfMod.outcome = "storage"
    /\ lastSelfMod.fileChanged
    /\ lastSelfMod.path = <<"home", "a", "x">>
    /\ lastRollback.outcome = "no_rollback_point"
    /\ lastRollback.path = lastSelfMod.path
    /\ files[lastSelfMod.path] = lastSelfMod.content
    /\ files[lastSelfMod.path] # "A"
    /\ rollbackPoints = <<>>

\* The mutation and its rollback point were written and the locator was
\* not: the rollback finds the point and ends with its data missing.
C40_WitnessDataMissing ==
    /\ lastSelfMod.outcome = "storage"
    /\ lastSelfMod.fileChanged
    /\ lastRollback.outcome = "data_missing"
    /\ lastRollback.path = lastSelfMod.path
    /\ files[lastSelfMod.path] = lastSelfMod.content
----------------------------------------------------------------------------
(* Claims on the schema version *)

\* C33: when the store's recorded schema version is newer than the version
\* the running core knows, the core refuses to start: the migration step
\* raises instead of returning normally.
C33_NewerSchemaRefused ==
    schemaVersion > SCHEMA_VERSION => startup # "started"

\* What runMigrations does: it brings an older store up to the version of
\* the code and starts on any store at or above it.
C33_StartsOnAnySchema ==
    /\ startup # "refused"
    /\ startup = "started" => schemaVersion >= SCHEMA_VERSION

\* The core has started on a newer schema and has written a Turn to it.
C33_WitnessRunsOnNewer ==
    /\ schemaVersion > SCHEMA_VERSION
    /\ startup = "started"
    /\ Len(turns) >= 1

----------------------------------------------------------------------------
(* Claims about the order of the executor's gates *)

\* The gate an outcome of a brain action belongs to.
GateOfOutcome(outcome) ==
    IF outcome = "allowlist" THEN "allowlist"
    ELSE IF outcome \in {"emergency", "dead"} THEN "emergency_survival"
    ELSE IF outcome = "wallet_locked" THEN "wallet"
    ELSE IF outcome \in {"chain_unsupported", "chain_capability"} THEN "chain"
    ELSE IF outcome = "selfmod_policy" THEN "selfmod_policy"
    ELSE "other"

\* The incident code the failure classification gives a refusal of the gate.
CodeOfGate(gate) ==
    IF gate = "wallet" THEN "WALLET_LOCKED"
    ELSE IF gate = "chain" THEN "CHAIN_CAPABILITY_BLOCKED"
    ELSE IF gate \in {"allowlist", "selfmod_policy"} THEN "ACTION_BLOCKED"
    ELSE "ACTION_FAILED"

\* The first gate of the order that is in the set.
EarliestGate(order, gates) ==
    order[CHOOSE i \in DOMAIN order :
            /\ order[i] \in gates
            /\ \A j \in DOMAIN order : order[j] \in gates => i <= j]

StatedGateOrder ==
    <<"allowlist", "emergency_survival", "wallet", "chain", "selfmod_policy">>

ExecutorGateOrder ==
    <<"allowlist", "chain", "wallet", "selfmod_policy", "emergency_survival">>

\* C11: when one or more of the gates would refuse a brain action, the
\* refusal and its incident code come from the earliest of them in the order
\* allowlist, emergency/survival, wallet session, chain capability,
\* self-modify policy.
C11_StatedGateOrder ==
    (lastAttempt.via = "brain" /\ lastAttempt.refusing # {})
      => /\ GateOfOutcome(lastAttempt.outcome)
              = EarliestGate(StatedGateOrder, lastAttempt.refusing)
         /\ lastAttempt.code
              = CodeOfGate(EarliestGate(StatedGateOrder, lastAttempt.refusing))

\* The order the executor has: allowlist, chain capability, wallet session,
\* self-modify policy, and the emergency/survival gate last, inside the
\* operation.
C11_ExecutorGateOrder ==
    (lastAttempt.via = "brain" /\ lastAttempt.refusing # {})
      => /\ GateOfOutcome(lastAttempt.outcome)
              = EarliestGate(ExecutorGateOrder, lastAttempt.refusing)
         /\ lastAttempt.code
              = CodeOfGate(EarliestGate(ExecutorGateOrder, lastAttempt.refusing))

\* A send_message action under the emergency stop with the wallet locked:
\* the incident is the wallet gate's.
C11_WitnessWalletBeforeEmergency ==
    /\ lastAttempt.via = "brain"
    /\ lastAttempt.op = "send_message"
    /\ lastAttempt.refusing = {"emergency_survival", "wallet"}
    /\ lastAttempt.code = "WALLET_LOCKED"

----------------------------------------------------------------------------
(* Claims on the scheduler *)

\* C15: once stopDaemon has cleared the running flag, the daemon starts no
\* new tick and the tick in progress executes no further action.
C15_StopHaltsActions ==
    [][~daemonRunning /\ daemonPc = "tick"
          => ticks'["daemon"].log = ticks["daemon"].log]_vars

\* With the flag cleared the loop starts no tick: its next wake ends it.
C15_NoNewTickAfterStop ==
    [][~daemonRunning /\ daemonPc = "sleep" => daemonPc' # "tick"]_vars

\* The loop was stopped during the brain call and the tick went on to
\* execute both actions of the output.
C15_WitnessActsAfterStop ==
    /\ ~daemonRunning
    /\ daemonPc = "tick"
    /\ ticks["daemon"].pc = "act"
    /\ Len(ticks["daemon"].log) = 2
    /\ DOMAIN facts = {"k1", "k2"}

\* The run() invocations that have started and not yet returned.
TicksInProgress == {c \in Callers : ticks[c].pc # "idle"}

\* C16: at most one tick is in progress at any time, for any sequence of
\* runDaemon, stopDaemon and run calls on one runtime.
C16_TicksSerial == Cardinality(TicksInProgress) <= 1

\* The ticks of the daemon loop alone never overlap: it awaits each run().
C16_DaemonTicksSerial ==
    ticks["daemon"].pc # "idle" <=> daemonPc = "tick"

\* A direct run() and a tick of the loop are both past the brain call, each
\* with actions of its own still to execute.
C16_WitnessOverlap ==
    /\ ticks["daemon"].pc = "act"
    /\ ticks["api"].pc = "act"
    /\ ticks["daemon"].n # ticks["api"].n
    /\ ticks["daemon"].idx <= Len(ticks["daemon"].actions)
    /\ ticks["api"].idx <= Len(ticks["api"].actions)

\* ms clamped to [0, maxSleepMs].
ClampSleep(ms) ==
    IF ms < 0 THEN 0
    ELSE IF ms > config.maxSleepMs THEN config.maxSleepMs
    ELSE ms

\* The step in which a tick of the loop returns and the loop goes to sleep.
DaemonTickReturns ==
    /\ daemonPc = "tick"
    /\ daemonPc' = "sleep"
    /\ lastDaemon'.result = "ok"

\* C17: when a tick has successfully executed a sleep action requesting s
\* milliseconds, the scheduler reads s clamped to [0, maxSleepMs] from
\* autonomy_next_sleep_ms after the tick and sleeps that long.
C17_SleepActionSetsSleep ==
    [][DaemonTickReturns =>
         \A i \in DOMAIN ticks["daemon"].log :
            (ticks["daemon"].actions[i].type = "sleep"
               /\ ticks["daemon"].log[i].ok)
            => /\ kvNextSleep' = ClampSleep(ticks["daemon"].actions[i].n)
               /\ wakeAt' - now' = ClampSleep(ticks["daemon"].actions[i].n)]_vars

\* What the scheduler reads is the validated output's sleepMs, or the
\* default interval when the output has none, whatever the actions did.
C17_OutputSleepMsWins ==
    [][DaemonTickReturns =>
         kvNextSleep' = IF ticks["daemon"].hasSleep
                          THEN ticks["daemon"].sleepMs
                          ELSE config.defaultIntervalMs]_vars

\* A tick of the loop executed sleep 1000 and the loop sleeps the default
\* interval.
C17_WitnessSleepActionLost ==
    /\ daemonPc = "sleep"
    /\ lastDaemon.result = "ok"
    /\ turns # <<>>
    /\ turns[Len(turns)].n = lastDaemon.tick
    /\ turns[Len(turns)].actions = <<LogEntry(TRUE, "sleep", "", 1000)>>
    /\ kvNextSleep = config.defaultIntervalMs
    /\ wakeAt - now = config.defaultIntervalMs

\* The step in which the loop goes to sleep after a tick, however it ended.
DaemonGoesToSleep == daemonPc = "tick" /\ daemonPc' = "sleep"

\* C18: between ticks the scheduler sleeps for autonomy_next_sleep_ms
\* clamped to [0, maxSleepMs] whenever the key holds a valid number, 0
\* included, and for intervalMs only when the key is unset or invalid.
C18_SleepsClampedValue ==
    [][DaemonGoesToSleep =>
         wakeAt' - now' = IF kvNextSleep' = -1 THEN config.defaultIntervalMs
                          ELSE ClampSleep(kvNextSleep')]_vars

\* The same for every value but 0, for which the loop sleeps intervalMs.
C18_SleepsClampedPositive ==
    [][DaemonGoesToSleep =>
         wakeAt' - now' = IF kvNextSleep' = -1 \/ kvNextSleep' = 0
                            THEN config.defaultIntervalMs
                          ELSE ClampSleep(kvNextSleep')]_vars

\* The key holds 0 and the loop sleeps the default interval.
C18_WitnessZero ==
    /\ daemonPc = "sleep"
    /\ kvNextSleep = 0
    /\ wakeAt - now = config.defaultIntervalMs

----------------------------------------------------------------------------
(* Claims on the emergency stop *)

\* C36: after emergencyStop() returns, the agent state stays stopped until
\* clearEmergencyStop() is called, even when a tick was in progress at the
\* moment emergencyStop() was called.
C36_StoppedUntilCleared == emergency => agentState = "stopped"

\* What holds: under the emergency stop only the step of a tick that was
\* already in progress takes the agent state away from stopped.
C36_OnlyRunningTickLeaves ==
    [][(emergency /\ emergency' /\ agentState = "stopped"
           /\ agentState' # "stopped")
          => TicksInProgress # {}]_vars

\* The emergency stop is set, no tick is in progress any more, and the tick
\* that was running when it was set has left the agent state at sleeping.
C36_WitnessSleepingWhileStopped ==
    /\ emergency
    /\ TicksInProgress = {}
    /\ agentState = "sleeping"
    /\ Len(turns) >= 1
----------------------------------------------------------------------------
(* Claims on the brain-failure streak *)

\* The brain call of the entry raised, or its output was malformed.
FailedBrainStep(entry) ==
    entry.out = BrainFailureOutput \/ entry.malformed

\* The number of failed brain steps at the end of the first k.
RECURSIVE TrailingFailures(_)
TrailingFailures(k) ==
    IF k = 0 THEN 0
    ELSE IF FailedBrainStep(brainLog[k]) THEN 1 + TrailingFailures(k - 1)
    ELSE 0

\* C20: after every tick that reached the brain step, brain_failure_streak_v1
\* is the number of consecutive most recent such ticks whose brain call
\* raised or whose output was malformed: one more on each failure, 0 after
\* each clean success.
C20_StreakCountsFailures == kvStreak = TrailingFailures(Len(brainLog))

\* A clean tick, then a malformed output, then a brain call that raised.
C20_Witness ==
    /\ Len(brainLog) = 3
    /\ ~FailedBrainStep(brainLog[1])
    /\ brainLog[2].malformed
    /\ brainLog[3].out = BrainFailureOutput
    /\ kvStreak = 2

\* Two failures, then a clean tick resets the streak.
C20_WitnessReset ==
    /\ Len(brainLog) = 3
    /\ FailedBrainStep(brainLog[1])
    /\ FailedBrainStep(brainLog[2])
    /\ ~FailedBrainStep(brainLog[3])
    /\ kvStreak = 0

----------------------------------------------------------------------------
(* Claims on the legacy survival check *)

\* C34: in the legacy AgentRuntime, after any number of low-balance
\* survival checks the minimum payment never exceeds 100 times the
\* originally configured minimum payment.
C34_MinPaymentCapped == minPayment <= 100 * minJobPayment

RECURSIVE Pow2(_)
Pow2(k) == IF k = 0 THEN 1 ELSE 2 * Pow2(k - 1)

\* What survivalCheck does: every low-balance check doubles the minimum,
\* with no upper limit.
C34_MinPaymentDoubles ==
    \E k \in 0..survivalChecks : minPayment = minJobPayment * Pow2(k)

\* Seven low-balance checks have taken a configured minimum of 1 wei to
\* 128 wei.
C34_WitnessAboveCap ==
    /\ minJobPayment = 1
    /\ survivalChecks = 7
    /\ minPayment = 128

----------------------------------------------------------------------------
(* Claims on the tool registry *)

\* The registry has to refuse the request for the source: the source is
\* unknown, or disabled, or external while external sources are disabled by
\* policy, or no adapter is registered for it.
MustRefuse(sourceId) ==
    \/ sourceId \notin DOMAIN RegistrySources
    \/ ~RegistrySources[sourceId].enabled
    \/ /\ RegistrySources[sourceId].type # "internal"
       /\ ~config.tooling.allowExternalSources
    \/ ResolveAdapter(RegistrySources[sourceId]) = "none"

\* C31: ToolRegistry.invoke returns ok = false without calling any adapter
\* when the sourceId is unknown, when the source is disabled, when the
\* source type is not internal while external sources are disabled by
\* policy, or when no adapter is registered for the source.
C31_RegistryFailsClosed ==
    \A k \in DOMAIN turns : \A i \in DOMAIN turns[k].actions :
        LET action == ExecutableOf(turns[k])[i] IN
        (action.type = "invoke_tool" /\ MustRefuse(action.a)) =>
            /\ ~turns[k].actions[i].ok
            /\ ~RegistryInvoke(action.a, action.b).ok
            /\ RegistryInvoke(action.a, action.b).adapter = "none"

\* The one action of the completed tick.
OnlyAction == ExecutableOf(turns[1])[1]

\* An API source has been refused by policy.
C31_Witness ==
    /\ Len(turns) = 1
    /\ OnlyAction.type = "invoke_tool"
    /\ OnlyAction.a = "ext.api"
    /\ ~config.tooling.allowExternalSources
    /\ ~turns[1].actions[1].ok
    /\ RegistryInvoke(OnlyAction.a, OnlyAction.b).error = "external_blocked"

\* The same source has been invoked where the policy allows it.
C31_WitnessAllowed ==
    /\ Len(turns) = 1
    /\ OnlyAction.type = "invoke_tool"
    /\ OnlyAction.a = "ext.api"
    /\ config.tooling.allowExternalSources
    /\ turns[1].actions[1].ok
    /\ RegistryInvoke(OnlyAction.a, OnlyAction.b).adapter = "readonly_api"

\* Refused: an unknown source, a disabled one, and two without adapter.
C31_WitnessEachCase ==
    /\ Len(turns) = 1
    /\ OnlyAction.type = "invoke_tool"
    /\ config.tooling.allowExternalSources
    /\ ~turns[1].actions[1].ok
    /\ RegistryInvoke(OnlyAction.a, OnlyAction.b).error
          \in {"unknown_source", "source_disabled", "no_adapter"}

----------------------------------------------------------------------------
(* Claims on the internal tools *)

\* The state store.
Store ==
    <<emergency, latestTier, agentState, sessions, lastPollAt, messages,
      conversations, mutations, rollbackPoints, kvBackup, selfModTimestamps,
      children, turns, telemetry, incidents, alerts, alertMarkers, facts,
      episodes, kvStreak, kvNextSleep>>

\* The tick of caller c executes, in this step, an invoke_tool action that
\* the internal adapter answers.
InternalToolStep(c) ==
    /\ ticks[c].pc = "act"
    /\ ticks[c].idx <= Len(ticks[c].actions)
    /\ ticks'[c].pc = "act"
    /\ ticks'[c].idx = ticks[c].idx + 1
    /\ LET action == ticks[c].actions[ticks[c].idx] IN
          /\ action.type = "invoke_tool"
          /\ action.b \in InternalTools
          /\ RegistryInvoke(action.a, action.b).ok
          /\ RegistryInvoke(action.a, action.b).adapter = "internal"

\* C32: invoking any tool of the internal adapter (agent.status,
\* memory.facts, memory.episodes, messages.threads, survival.latest,
\* queue.depth) leaves the state store unchanged.
C32_InternalToolsReadOnly ==
    [][\A c \in Callers : InternalToolStep(c) => Store' = Store]_vars

\* What the handlers do: all of them but messages.threads leave the store
\* unchanged, and messages.threads writes xmtp_conversations only.
C32_OnlyThreadsWrites ==
    [][\A c \in Callers :
          InternalToolStep(c) =>
              IF ticks[c].actions[ticks[c].idx].b = "messages.threads"
                THEN /\ conversations' = conversations \cup knownThreads
                     /\ <<messages, turns, incidents, facts, episodes>>'
                          = <<messages, turns, incidents, facts, episodes>>
                ELSE Store' = Store]_vars

\* A tick has sent a message and then listed the threads: the store holds a
\* conversation that the send had not put there.
C32_WitnessThreadsWritten ==
    /\ Len(turns) = 1
    /\ Len(turns[1].actions) = 2
    /\ turns[1].actions[1].ok
    /\ turns[1].actions[2].ok
    /\ ExecutableOf(turns[1])[2].b = "messages.threads"
    /\ conversations = {DmThread("Peer"), DmThread("peer")}

----------------------------------------------------------------------------
(* Claims about the Turn and TurnTelemetry rows *)

\* The telemetry rows whose turnId is the turn's id.
TelemetryOf(n) == {j \in DOMAIN telemetry : telemetry[j].turn = n}

\* Every telemetry row references a Turn row.
TelemetryReferencesTurns ==
    \A j \in DOMAIN telemetry :
        \E i \in DOMAIN turns : turns[i].n = telemetry[j].turn

\* C12: every Turn row, dry-run turns included, has exactly one TurnTelemetry
\* row with its id, and every TurnTelemetry row references an existing Turn.
C12_TelemetryPerTurn ==
    /\ \A i \in DOMAIN turns : Cardinality(TelemetryOf(turns[i].n)) = 1
    /\ TelemetryReferencesTurns

\* What run() writes: one telemetry row for each Turn of a full tick, none
\* for the Turn of a dry run.
C12_TelemetryExceptDryRun ==
    /\ \A i \in DOMAIN turns :
          Cardinality(TelemetryOf(turns[i].n))
              = IF turns[i].dryRun THEN 0 ELSE 1
    /\ TelemetryReferencesTurns

\* A dry-run Turn after a full one.
C12_WitnessDryRun ==
    /\ Len(turns) = 2
    /\ ~turns[1].dryRun
    /\ turns[2].dryRun
    /\ Len(telemetry) = 1

----------------------------------------------------------------------------
(* Claims about the turn validator *)

\* The validator applied to its own output of a tick, under the tick's
\* limits and policy.
Revalidated(entry) ==
    ValidateBrainTurnOutput(entry.validated, config.maxActionsPerTurn,
                            config.maxSleepMs, config.strictActionAllowlist)

\* C13: for every brain output, the validator applied to its own output
\* returns that output unchanged and malformed = false.
C13_Idempotent ==
    \A i \in DOMAIN brainLog :
        /\ Revalidated(brainLog[i]).output = brainLog[i].validated
        /\ ~Revalidated(brainLog[i]).malformed

\* The same for the outputs the first pass did not mark malformed.
C13_IdempotentWhenWellFormed ==
    \A i \in DOMAIN brainLog :
        ~brainLog[i].malformed =>
            /\ Revalidated(brainLog[i]).output = brainLog[i].validated
            /\ ~Revalidated(brainLog[i]).malformed

\* For the outputs the first pass marked malformed the second pass differs:
\* under the strict policy it marks its input malformed again, otherwise it
\* returns it with integrity ok.
C13_SecondPassOfMalformed ==
    \A i \in DOMAIN brainLog :
        brainLog[i].malformed =>
            IF config.strictActionAllowlist
              THEN /\ Revalidated(brainLog[i]).malformed
                   /\ Revalidated(brainLog[i]).output = brainLog[i].validated
              ELSE /\ ~Revalidated(brainLog[i]).malformed
                   /\ Revalidated(brainLog[i]).output
                        = [brainLog[i].validated EXCEPT !.integrity = "ok"]

\* A well-formed output whose actions were truncated, filtered and whose
\* sleep was clamped, validated once.
C13_WitnessWellFormed ==
    /\ Len(brainLog) = 1
    /\ ~config.strictActionAllowlist
    /\ ~brainLog[1].malformed
    /\ brainLog[1].out.summary = " go "
    /\ Len(brainLog[1].out.nextActions) = MaxValidateActions
    /\ brainLog[1].validated.nextActions = <<SleepAction(400000)>>
    /\ brainLog[1].validated.sleepMs = config.maxSleepMs

\* The actions the brain gave: nextActions when it is an array.
GivenActions(entry) ==
    IF entry.out.isArray THEN entry.out.nextActions ELSE <<>>

\* v keeps entries of s in their order.
IsSubsequence(v, s) ==
    \E f \in [DOMAIN v -> DOMAIN s] :
        /\ \A i, j \in DOMAIN v : i < j => f[i] < f[j]
        /\ \A i \in DOMAIN v : v[i] = s[f[i]]

\* C14: the validated action list is never empty, has at most
\* max(1, maxActions) entries, holds only allowlisted types and keeps the
\* brain's actions in their relative order; when no action survives it is
\* exactly one noop with reason no_actions.
C14_ValidatedList ==
    \A e \in DOMAIN brainLog :
        LET v     == brainLog[e].validated.nextActions
            given == GivenActions(brainLog[e])
            limit == IF config.maxActionsPerTurn > 1
                       THEN config.maxActionsPerTurn ELSE 1
            kept  == {i \in DOMAIN given :
                        i <= limit /\ given[i].type \in ALLOWED_AUTONOMY_ACTIONS}
        IN
        /\ Len(v) >= 1
        /\ Len(v) <= limit
        /\ \A i \in DOMAIN v : v[i].type \in ALLOWED_AUTONOMY_ACTIONS
        /\ IF kept = {} THEN v = <<Noop("no_actions")>>
           ELSE /\ IsSubsequence(v, given)
                /\ Len(v) = Cardinality(kept)

\* Three actions under a limit of two: the disallowed first one is dropped,
\* the third is cut, the second is the validated list.
C14_Witness ==
    /\ Len(brainLog) = 1
    /\ config.maxActionsPerTurn = 2
    /\ brainLog[1].out.isArray
    /\ brainLog[1].out.nextActions
          = <<Action("exec", "", "rm", "", 0, NoPath), Noop(""),
              SleepAction(400000)>>
    /\ brainLog[1].validated.nextActions = <<Noop("")>>

\* Every action dropped.
C14_WitnessAllDropped ==
    /\ Len(brainLog) = 1
    /\ brainLog[1].out.isArray
    /\ Len(brainLog[1].out.nextActions) = 2
    /\ brainLog[1].validated.nextActions = <<Noop("no_actions")>>

----------------------------------------------------------------------------
(* Claims on the wallet session *)

\* getActiveUnlockSession: the sessions neither revoked nor expired.
ActiveSessions ==
    {i \in DOMAIN sessions :
        ~sessions[i].revoked /\ sessions[i].expiresAt > now}

\* C23: after any sequence of unlock, lock and rotate calls at most one
\* UnlockSession is active, that is neither revoked nor expired.
C23_OneActiveSession == Cardinality(ActiveSessions) <= 1

\* lock and rotate leave no active session.
C23_LockRevokesAll == ~account => ActiveSessions = {}

\* Two unlock calls within the TTL and no lock between them.
C23_WitnessTwoActive ==
    /\ Len(sessions) = 2
    /\ sessions[1].createdAt < sessions[2].createdAt
    /\ ActiveSessions = {1, 2}

\* A send_message or replicate action met a wallet whose TTL had run out
\* with no lock call since the unlock.
ExpiredAttempt ==
    /\ lastAttempt.via = "brain"
    /\ lastAttempt.op \in {"send_message", "replicate"}
    /\ lastAttempt.wallet = "expired"

\* C24: isUnlocked() is true exactly when a signer is loaded and now is
\* before unlockedUntil; once the TTL of the last unlock has elapsed without
\* any lock call, send_message and replicate actions are refused as
\* wallet-locked.
C24_ExpiredIsLocked ==
    ExpiredAttempt =>
        /\ lastAttempt.outcome = "wallet_locked"
        /\ lastAttempt.code = "WALLET_LOCKED"
        /\ ~lastAttempt.effect

\* Such an action is always refused and changes nothing; it is refused as
\* wallet-locked unless the chain check, which comes first, refuses it.
C24_ExpiredIsRefused ==
    ExpiredAttempt =>
        /\ ~lastAttempt.effect
        /\ lastAttempt.outcome \in {"wallet_locked", "chain_capability"}
        /\ lastAttempt.outcome = "chain_capability"
              => /\ lastAttempt.op = "replicate"
                 /\ ~config.chain.payments
        /\ lastAttempt.outcome = "wallet_locked"
              => lastAttempt.code = "WALLET_LOCKED"

\* A send_message action after the TTL, refused as wallet-locked.
C24_WitnessExpiredSend ==
    /\ ExpiredAttempt
    /\ lastAttempt.op = "send_message"
    /\ account
    /\ now >= unlockedUntil
    /\ lastAttempt.code = "WALLET_LOCKED"

\* A funded replicate action after the TTL on a chain without payments,
\* refused by the chain check.
C24_WitnessExpiredChain ==
    /\ ExpiredAttempt
    /\ lastAttempt.op = "replicate"
    /\ lastAttempt.code = "CHAIN_CAPABILITY_BLOCKED"

----------------------------------------------------------------------------
(* Claims about the self-modification engine *)

\* C7: at most 6 self-modifications succeed within any rolling hour; a call
\* made while 6 successful writes lie within the last hour is refused, changes
\* no file and inserts no row, and when the emergency/survival gate and the
\* feature switch let it through the refusal is the rate limit's.
C7_RateLimit ==
    /\ \A i \in DOMAIN mutations :
          Cardinality({j \in DOMAIN mutations :
              /\ mutations[j].createdAt >= mutations[i].createdAt
              /\ mutations[j].createdAt <= mutations[i].createdAt + SELF_MOD_WINDOW_MS})
            <= SELF_MOD_LIMIT_PER_WINDOW
    /\ (lastSelfMod.outcome # "none"
          /\ lastSelfMod.writesInWindow >= SELF_MOD_LIMIT_PER_WINDOW)
         => /\ lastSelfMod.outcome # "ok"
            /\ ~lastSelfMod.fileChanged
            /\ ~lastSelfMod.rowAdded
            /\ (lastSelfMod.earlierGates = "ok"
                  => lastSelfMod.outcome = "rate_limited")

C7_Witness ==
    /\ lastSelfMod.outcome = "rate_limited"
    /\ Len(mutations) = SELF_MOD_LIMIT_PER_WINDOW

\* A seventh write succeeds once the first has left the window.
C7_WitnessAfterWindow ==
    /\ lastSelfMod.outcome = "ok"
    /\ Len(mutations) > SELF_MOD_LIMIT_PER_WINDOW

\* C8: a successful rollback(path) has taken the most recent rollback point of
\* the path and leaves the file with the sha256 that point's mutation recorded
\* as beforeHash, or absent when the pre-image did not exist.
C8_RollbackRestores ==
    lastRollback.outcome = "ok" =>
        LET i == lastRollback.point
            m == mutations[rollbackPoints[i].mutationId]
        IN
        /\ \A j \in DOMAIN rollbackPoints :
              rollbackPoints[j].path = lastRollback.path => j <= i
        /\ IF m.beforeHash = NullHash
             THEN lastRollback.path \notin DOMAIN files
             ELSE /\ lastRollback.path \in DOMAIN files
                  /\ Sha256(files[lastRollback.path]) = m.beforeHash

\* The same statement for histories in which no two self-modifications share
\* a millisecond.
C8_DistinctMilliseconds ==
    (\A i, j \in DOMAIN mutations :
        i # j => mutations[i].createdAt # mutations[j].createdAt)
      => C8_RollbackRestores

C8_WitnessDistinct ==
    /\ lastRollback.outcome = "ok"
    /\ Len(mutations) = 2
    /\ mutations[1].createdAt # mutations[2].createdAt
    /\ mutations[1].path = mutations[2].path
    /\ lastRollback.path = mutations[1].path

\* The normalized path is equal to or below a protected path, or lies outside
\* both the working directory and the home directory.
C9_Forbidden(p) ==
    \/ \E pp \in config.protectedPaths : IsPrefix(Normalize(pp, <<>>), p)
    \/ ~(IsPrefix(config.cwd, p) \/ IsPrefix(config.homeDir, p))

\* C9: selfModify writes no file at a forbidden path, and a call for one is
\* refused with no file change, no rate-limit slot and no mutation row.
C9_PathGates ==
    /\ \A i \in DOMAIN mutations : ~C9_Forbidden(mutations[i].path)
    /\ \A p \in DOMAIN files :
          C9_Forbidden(p) => (p = <<"home", "laws", "home">> /\ files[p] = "A")
    /\ (lastSelfMod.outcome # "none" /\ C9_Forbidden(lastSelfMod.path))
         => /\ lastSelfMod.outcome # "ok"
            /\ ~lastSelfMod.fileChanged
            /\ ~lastSelfMod.slotUsed
            /\ ~lastSelfMod.rowAdded

\* A call for a file below the protected directory, after a successful write.
C9_Witness ==
    /\ lastSelfMod.outcome = "protected"
    /\ lastSelfMod.path = <<"home", "laws", "home">>
    /\ Len(mutations) = 1

C9_WitnessOutOfScope ==
    /\ lastSelfMod.outcome = "out_of_scope"
    /\ Len(lastSelfMod.path) = 2
====
